---- MODULE Spec2Model ----
(***************************************************************************)
(* Model of the gotickets storage engine (src/internal/storage/storage.go):*)
(* the in-memory TicketStorage, its persistence to tickets.json through    *)
(* the FileSystem interface, the timestamped backups and the bulk import.  *)
(*                                                                         *)
(* Strings are sequences of one-character strings, so that TrimSpace,      *)
(* SplitN, Contains and ToLower are computed as the Go library computes    *)
(* them.  A time.Time is modelled by its instant, counted in seconds of    *)
(* the model clock.                                                        *)
(***************************************************************************)
EXTENDS Integers, Sequences, FiniteSets, TLC

VARIABLES
    Tickets,    \* ts.Tickets: sequence of Ticket records
    NextID,     \* ts.NextID
    primary,    \* content of <home>/.gotickets/tickets.json, or Absent
    backups,    \* timestamp -> content of tickets_backup_<timestamp>.json, or Absent
    clock,      \* time.Now(), in seconds
    lastOp,     \* the last call made on the engine, its inputs and what it returned
    hist,       \* history of the store object since it was constructed
    model,      \* the ui.Model, apart from its storage (Tickets and NextID)
    procs,      \* the stores of two processes that share tickets.json
    held        \* a slice Search returned earlier, and the array under ts.Tickets

vars == <<Tickets, NextID, primary, backups, clock, lastOp, hist, model, procs, held>>

----------------------------------------------------------------------------
(* Bounds of the model *)

\* ids are handed out while NextID <= MaxId
MaxId == 3
\* time.Now() reads one of the seconds 0..MaxClock
MaxClock == 1
\* ids are handed out while NextID <= MaxFsId in the runs that use the files
MaxFsId == 2
\* the text input takes characters while it holds fewer than MaxInput
MaxInput == 2
MaxTitle == 1

Times == 0..MaxClock

----------------------------------------------------------------------------
(* Strings: package strings and unicode *)

UpperLetters == <<"A","B","C","D","E","F","G","H","I","J","K","L","M",
                  "N","O","P","Q","R","S","T","U","V","W","X","Y","Z">>
LowerLetters == <<"a","b","c","d","e","f","g","h","i","j","k","l","m",
                  "n","o","p","q","r","s","t","u","v","w","x","y","z">>

\* the lower-case letter of each upper-case letter
LowerOf ==
    [c \in {UpperLetters[i] : i \in DOMAIN UpperLetters} |->
        LowerLetters[CHOOSE i \in DOMAIN UpperLetters : UpperLetters[i] = c]]

\* unicode.ToLower on one character
ToLowerChar(c) == IF c \in DOMAIN LowerOf THEN LowerOf[c] ELSE c

\* strings.ToLower
ToLower(s) == [i \in 1..Len(s) |-> ToLowerChar(s[i])]

\* unicode.IsSpace, on the characters the model uses
IsSpace(c) == c \in {" ", "\t", "\n", "\r"}

RECURSIVE TrimLeft(_)
TrimLeft(s) ==
    IF s = <<>> THEN s
    ELSE IF IsSpace(Head(s)) THEN TrimLeft(Tail(s)) ELSE s

RECURSIVE TrimRight(_)
TrimRight(s) ==
    IF s = <<>> THEN s
    ELSE IF IsSpace(s[Len(s)]) THEN TrimRight(SubSeq(s, 1, Len(s) - 1)) ELSE s

\* strings.TrimSpace
TrimSpace(s) == TrimRight(TrimLeft(s))

\* strings.Index, 1-based; 0 when substr does not occur (Go returns -1)
RECURSIVE IndexFrom(_, _, _)
IndexFrom(s, substr, i) ==
    IF i + Len(substr) - 1 > Len(s) THEN 0
    ELSE IF SubSeq(s, i, i + Len(substr) - 1) = substr THEN i
    ELSE IndexFrom(s, substr, i + 1)

Index(s, substr) == IndexFrom(s, substr, 1)

\* strings.Contains
Contains(s, substr) == Index(s, substr) # 0

\* strings.Split(s, sep): a split at every occurrence of sep
RECURSIVE SplitN2_EveryOccurrence(_, _)
SplitN2_EveryOccurrence(s, sep) ==
    LET i == Index(s, sep)
    IN  IF i = 0 THEN <<s>>
        ELSE <<SubSeq(s, 1, i - 1)>>
                \o SplitN2_EveryOccurrence(SubSeq(s, i + Len(sep), Len(s)), sep)

\* strings.SplitN(s, sep, 2) for a non-empty sep: one part when sep does
\* not occur, else the text before the first sep and all the text after it
SplitN2(s, sep) ==
    LET i == Index(s, sep)
    IN  IF i = 0 THEN <<s>>
        ELSE <<SubSeq(s, 1, i - 1), SubSeq(s, i + Len(sep), Len(s))>>

----------------------------------------------------------------------------
(* Ticket.ExtractTicketNumber: the five regular expressions and the fallback. *)
(* A regexp of package regexp finds the leftmost match and, among the        *)
(* matches that start there, the one a backtracking search meets first       *)
(* (greedy operators take as much as they can).  FindStringSubmatch returns  *)
(* the text of group 1; <<>> stands for "no match" (a group \d+ is never     *)
(* empty).  The strings of the model hold no line break, so "." is any       *)
(* character and "$" is the end of the text.                                 *)

DigitChars == <<"0", "1", "2", "3", "4", "5", "6", "7", "8", "9">>

\* \d
IsDigit(c) == \E d \in DOMAIN DigitChars : DigitChars[d] = c
\* [A-Z]
IsUpper(c) == \E u \in DOMAIN UpperLetters : UpperLetters[u] = c
\* [/?#]
IsDelimiter(c) == c \in {"/", "?", "#"}

\* the end of the digits that a greedy \d+ takes from position i on
DigitsEnd(s, i) ==
    CHOOSE q \in i..Len(s) :
        /\ \A k \in i..q : IsDigit(s[k])
        /\ q = Len(s) \/ ~IsDigit(s[q + 1])

\* the text a greedy (\d+) captures at position i
DigitsAt(s, i) == SubSeq(s, i, DigitsEnd(s, i))

\* (?:[/?#].*)?$ matches from position i on: the text ends there, or a
\* delimiter stands there (and .* takes the rest)
TailMatches(s, i) == i > Len(s) \/ IsDelimiter(s[i])

Smallest(S) == CHOOSE i \in S : \A j \in S : i <= j
Largest(S) == CHOOSE i \in S : \A j \in S : j <= i

\* `[A-Z]+-(\d+)`: the places where a hyphen follows an upper-case letter
\* and a digit follows the hyphen; the leftmost match ends at the first
MatchProjectKey(s) ==
    LET hyphens == {h \in 2..(Len(s) - 1) :
                       /\ s[h] = "-"
                       /\ IsUpper(s[h - 1])
                       /\ IsDigit(s[h + 1])}
    IN  IF hyphens = {} THEN <<>> ELSE DigitsAt(s, Smallest(hyphens) + 1)

\* `.*[^/]/(\d+)(?:[/?#].*)?$`: the match starts at the start of the text
\* and the greedy .* gives back as little as it can, so the slash is the
\* last one that has a character other than "/" before it, digits after
\* it, and the end of the text or a delimiter after the digits
MatchPrecededSegment(s) ==
    LET slashes == {p \in 2..(Len(s) - 1) :
                       /\ s[p] = "/"
                       /\ s[p - 1] # "/"
                       /\ IsDigit(s[p + 1])
                       /\ TailMatches(s, DigitsEnd(s, p + 1) + 1)}
    IN  IF slashes = {} THEN <<>> ELSE DigitsAt(s, Largest(slashes) + 1)

\* `/(\d+)(?:[/?#].*)?$`: the leftmost slash with digits after it and the
\* end of the text or a delimiter after the digits
MatchSegment(s) ==
    LET slashes == {p \in 1..(Len(s) - 1) :
                       /\ s[p] = "/"
                       /\ IsDigit(s[p + 1])
                       /\ TailMatches(s, DigitsEnd(s, p + 1) + 1)}
    IN  IF slashes = {} THEN <<>> ELSE DigitsAt(s, Smallest(slashes) + 1)

\* the words of (?:issue|ticket|task)
Keywords == << <<"i","s","s","u","e">>, <<"t","i","c","k","e","t">>,
               <<"t","a","s","k">> >>

\* `(?:issue|ticket|task)(?:s)?[/=](\d+)`: the position of the digits of
\* the match that starts at i, 0 when none starts there
KeywordDigits(s, i) ==
    LET words == {w \in DOMAIN Keywords :
                     /\ i + Len(Keywords[w]) - 1 <= Len(s)
                     /\ SubSeq(s, i, i + Len(Keywords[w]) - 1) = Keywords[w]}
        after == i + Len(Keywords[CHOOSE w \in words : TRUE])
        sep == IF after <= Len(s) /\ s[after] = "s" THEN after + 1 ELSE after
    IN  IF words = {} THEN 0
        ELSE IF /\ sep + 1 <= Len(s)
                /\ s[sep] \in {"/", "="}
                /\ IsDigit(s[sep + 1])
        THEN sep + 1
        ELSE 0

MatchKeyword(s) ==
    LET starts == {i \in 1..Len(s) : KeywordDigits(s, i) # 0}
    IN  IF starts = {} THEN <<>>
        ELSE DigitsAt(s, KeywordDigits(s, Smallest(starts)))

\* `(\d{6,})`: the leftmost place where six digits stand, and all the
\* digits from there on
MatchLongNumber(s) ==
    LET starts == {i \in 1..(Len(s) - 5) : \A k \in i..(i + 5) : IsDigit(s[k])}
    IN  IF starts = {} THEN <<>> ELSE DigitsAt(s, Smallest(starts))

\* strconv: the decimal digits of n >= 0
RECURSIVE Itoa(_)
Itoa(n) ==
    IF n < 10 THEN <<DigitChars[n + 1]>>
    ELSE Append(Itoa(n \div 10), DigitChars[(n % 10) + 1])

\* fmt.Sprintf("%06d", n) for n >= 0
RECURSIVE ZeroPad(_, _)
ZeroPad(digits, width) ==
    IF Len(digits) >= width THEN digits ELSE ZeroPad(<<"0">> \o digits, width)

Sprintf06d(n) == ZeroPad(Itoa(n), 6)

\* Ticket.ExtractTicketNumber
ExtractTicketNumber(t) ==
    IF MatchProjectKey(t.URL) # <<>> THEN MatchProjectKey(t.URL)
    ELSE IF MatchPrecededSegment(t.URL) # <<>> THEN MatchPrecededSegment(t.URL)
    ELSE IF MatchSegment(t.URL) # <<>> THEN MatchSegment(t.URL)
    ELSE IF MatchKeyword(ToLower(t.URL)) # <<>> THEN MatchKeyword(ToLower(t.URL))
    ELSE IF MatchLongNumber(t.URL) # <<>> THEN MatchLongNumber(t.URL)
    ELSE Sprintf06d(t.ID)

----------------------------------------------------------------------------
(* The persisted JSON document: encoding/json on TicketStorage *)

\* no file at the path
Absent == [kind |-> "absent"]
\* bytes that are not a JSON document
Garbage == [kind |-> "garbage"]

\* encoding/json (HTML escaping on) writes " and \ with a backslash before
\* them, and <, > and & as the six characters of their \u00XX escape
EscapeChar(c) ==
    CASE c = "\"" -> <<"\\", "\"">>
      [] c = "\\" -> <<"\\", "\\">>
      [] c = "<"  -> <<"\\", "u", "0", "0", "3", "c">>
      [] c = ">"  -> <<"\\", "u", "0", "0", "3", "e">>
      [] c = "&"  -> <<"\\", "u", "0", "0", "2", "6">>
      [] OTHER    -> <<c>>

RECURSIVE EscapeString(_)
EscapeString(s) ==
    IF s = <<>> THEN <<>> ELSE EscapeChar(Head(s)) \o EscapeString(Tail(s))

\* the character a \uXXXX escape of the model stands for
UnicodeEscape(h) ==
    CASE h = <<"0", "0", "3", "c">> -> "<"
      [] h = <<"0", "0", "3", "e">> -> ">"
      [] h = <<"0", "0", "2", "6">> -> "&"
      [] OTHER -> "?"

\* UnescapeString reading a \u escape as the characters that spell it
RECURSIVE UnescapeString_NoUnicode(_)
UnescapeString_NoUnicode(e) ==
    IF e = <<>> THEN <<>>
    ELSE IF Head(e) # "\\" THEN <<Head(e)>> \o UnescapeString_NoUnicode(Tail(e))
    ELSE <<e[2]>> \o UnescapeString_NoUnicode(SubSeq(e, 3, Len(e)))

\* encoding/json reading the body of a string literal
RECURSIVE UnescapeString(_)
UnescapeString(e) ==
    IF e = <<>> THEN <<>>
    ELSE IF Head(e) # "\\" THEN <<Head(e)>> \o UnescapeString(Tail(e))
    ELSE IF e[2] = "u"
         THEN <<UnicodeEscape(SubSeq(e, 3, 6))>> \o UnescapeString(SubSeq(e, 7, Len(e)))
         ELSE <<e[2]>> \o UnescapeString(SubSeq(e, 3, Len(e)))

\* time.Time.MarshalJSON: the RFC 3339 text of the instant
FormatTime(t) == [rfc3339 |-> t]
\* time.Time.UnmarshalJSON
ParseTime(j) == j.rfc3339

\* json.Marshal of one Ticket, by its field tags
MarshalTicket(t) ==
    [id |-> t.ID, title |-> EscapeString(t.Title), url |-> EscapeString(t.URL),
     created_at |-> FormatTime(t.CreatedAt)]

UnmarshalTicket(j) ==
    [ID |-> j.id, Title |-> UnescapeString(j.title), URL |-> UnescapeString(j.url),
     CreatedAt |-> ParseTime(j.created_at)]

\* json.MarshalIndent(ts, "", "  "): the exported fields tickets and next_id
MarshalIndent(tickets, nextID) ==
    [kind |-> "object",
     tickets |-> [i \in 1..Len(tickets) |-> MarshalTicket(tickets[i])],
     next_id |-> nextID]

\* json.Unmarshal(data, &storage): ok is FALSE when data is not a document;
\* a field the document lacks keeps the zero value of its Go type
Unmarshal(data) ==
    IF data.kind = "object"
    THEN [ok |-> TRUE,
          Tickets |-> [i \in 1..Len(data.tickets) |-> UnmarshalTicket(data.tickets[i])],
          NextID |-> IF "next_id" \in DOMAIN data THEN data.next_id ELSE 0]
    ELSE [ok |-> FALSE, Tickets |-> <<>>, NextID |-> 0]

----------------------------------------------------------------------------
(* TicketStorage: the in-memory operations *)

\* NewTicketStorage
NewTicketStorage == [Tickets |-> <<>>, NextID |-> 1]

\* AppendTicket without the increment of NextID
AppendTicket_NoIncrement(tickets, nextID, title, url, now) ==
    [Tickets |-> Append(tickets, [ID |-> nextID, Title |-> title, URL |-> url,
                                   CreatedAt |-> now]),
     NextID |-> nextID]

\* AppendTicket numbering the ticket by its position in the slice
AppendTicket_IdFromLen(tickets, nextID, title, url, now) ==
    [Tickets |-> Append(tickets, [ID |-> Len(tickets) + 1, Title |-> title,
                                   URL |-> url, CreatedAt |-> now]),
     NextID |-> nextID + 1]

\* AppendTicket putting the new ticket before the others
AppendTicket_AtFront(tickets, nextID, title, url, now) ==
    [Tickets |-> <<[ID |-> nextID, Title |-> title, URL |-> url,
                    CreatedAt |-> now]>> \o tickets,
     NextID |-> nextID + 1]

\* AddTicket after its backup attempt: build the ticket, append, increment
AppendTicket(tickets, nextID, title, url, now) ==
    [Tickets |-> Append(tickets, [ID |-> nextID, Title |-> title, URL |-> url,
                                   CreatedAt |-> now]),
     NextID |-> nextID + 1]

\* Search
RECURSIVE SearchFrom(_, _, _)
SearchFrom(tickets, q, i) ==
    IF i > Len(tickets) THEN <<>>
    ELSE IF Contains(ToLower(tickets[i].Title), q) \/ Contains(ToLower(tickets[i].URL), q)
         THEN <<tickets[i]>> \o SearchFrom(tickets, q, i + 1)
         ELSE SearchFrom(tickets, q, i + 1)

\* Search comparing the lowered texts with the query as typed
Search_QueryNotLowered(tickets, query) ==
    IF query = <<>> THEN tickets
    ELSE SearchFrom(tickets, query, 1)

Search(tickets, query) ==
    IF query = <<>> THEN tickets
    ELSE SearchFrom(tickets, ToLower(query), 1)

\* the removal putting the last ticket in the place of the removed one
RemoveTicket_SwapWithLast(tickets, id) ==
    LET hits == {i \in 1..Len(tickets) : tickets[i].ID = id}
    IN  IF hits = {} THEN [Tickets |-> tickets, ok |-> FALSE]
        ELSE LET i == CHOOSE k \in hits : \A j \in hits : k <= j
             IN  [Tickets |-> SubSeq([tickets EXCEPT ![i] = tickets[Len(tickets)]],
                                     1, Len(tickets) - 1),
                  ok |-> TRUE]

\* DeleteTicket after its backup attempt: remove the first ticket with the id
RemoveTicket(tickets, id) ==
    LET hits == {i \in 1..Len(tickets) : tickets[i].ID = id}
    IN  IF hits = {} THEN [Tickets |-> tickets, ok |-> FALSE]
        ELSE LET i == CHOOSE k \in hits : \A j \in hits : k <= j
             IN  [Tickets |-> SubSeq(tickets, 1, i - 1) \o SubSeq(tickets, i + 1, Len(tickets)),
                  ok |-> TRUE]

\* HasTicketWithURL comparing as strings.EqualFold does
HasTicketWithURL_EqualFold(tickets, url) ==
    \E i \in 1..Len(tickets) : ToLower(tickets[i].URL) = ToLower(url)

\* HasTicketWithURL
HasTicketWithURL(tickets, url) == \E i \in 1..Len(tickets) : tickets[i].URL = url

----------------------------------------------------------------------------
(* Backup manager and persistence.  A fault names the FileSystem call that *)
(* fails during the operation ("none": every call succeeds).               *)
(* "WriteFileTrunc" is os.WriteFile failing after it truncated the file.   *)

BackupFaults == {"none", "UserHomeDir", "Stat", "ReadFile", "WriteFile", "WriteFileTrunc"}
SaveFaults == {"none", "UserHomeDir", "MkdirAll", "WriteFile", "WriteFileTrunc"}
LoadFaults == {"none", "UserHomeDir", "ReadFile"}
RestoreFaults == {"none", "UserHomeDir", "Stat", "ReadFile", "WriteFile", "WriteFileTrunc"}
\* the calls a backup makes while tickets.json is absent
HomeFaults == {"none", "UserHomeDir", "Stat"}

\* CreateBackupUsing without the os.IsNotExist return
CreateBackupUsing_NoExistCheck(prim, bks, now, fault) ==
    IF fault = "UserHomeDir" THEN [backups |-> bks, err |-> "home"]
    ELSE IF fault = "ReadFile" \/ prim = Absent
         THEN [backups |-> bks, err |-> "failed to read tickets file for backup"]
    ELSE IF fault = "WriteFile"
         THEN [backups |-> bks, err |-> "failed to create backup"]
    ELSE IF fault = "WriteFileTrunc"
         THEN [backups |-> [bks EXCEPT ![now] = Garbage], err |-> "failed to create backup"]
    ELSE [backups |-> [bks EXCEPT ![now] = prim], err |-> "none"]

\* CreateBackupUsing at time now; fault "Stat" is a Stat error other than
\* NotExist, which os.IsNotExist does not recognise
CreateBackupUsing(prim, bks, now, fault) ==
    IF fault = "UserHomeDir" THEN [backups |-> bks, err |-> "home"]
    ELSE IF fault # "Stat" /\ prim = Absent THEN [backups |-> bks, err |-> "none"]
    ELSE IF fault = "ReadFile" \/ prim = Absent
         THEN [backups |-> bks, err |-> "failed to read tickets file for backup"]
    ELSE IF fault = "WriteFile"
         THEN [backups |-> bks, err |-> "failed to create backup"]
    ELSE IF fault = "WriteFileTrunc"
         THEN [backups |-> [bks EXCEPT ![now] = Garbage], err |-> "failed to create backup"]
    ELSE [backups |-> [bks EXCEPT ![now] = prim], err |-> "none"]

\* Save: the new content of tickets.json and the error returned
SaveFile(tickets, nextID, prim, fault) ==
    IF fault = "UserHomeDir" THEN [primary |-> prim, err |-> "home"]
    ELSE IF fault = "MkdirAll" THEN [primary |-> prim, err |-> "mkdir"]
    ELSE IF fault = "WriteFile" THEN [primary |-> prim, err |-> "write"]
    ELSE IF fault = "WriteFileTrunc" THEN [primary |-> Garbage, err |-> "write"]
    ELSE [primary |-> MarshalIndent(tickets, nextID), err |-> "none"]

\* LoadTicketsFromPathWithFS returning the zero TicketStorage on a parse error
LoadTicketsFromPathWithFS_ZeroOnError(prim, fault) ==
    IF fault = "ReadFile" \/ prim = Absent THEN NewTicketStorage
    ELSE LET storage == Unmarshal(prim)
         IN  IF ~storage.ok THEN [Tickets |-> <<>>, NextID |-> 0]
             ELSE [Tickets |-> storage.Tickets,
                   NextID |-> IF storage.NextID = 0 THEN 1 ELSE storage.NextID]

\* LoadTicketsFromPathWithFS keeping the NextID it decoded
LoadTicketsFromPathWithFS_NoCoercion(prim, fault) ==
    IF fault = "ReadFile" \/ prim = Absent THEN NewTicketStorage
    ELSE LET storage == Unmarshal(prim)
         IN  IF ~storage.ok THEN NewTicketStorage
             ELSE [Tickets |-> storage.Tickets, NextID |-> storage.NextID]

\* LoadTicketsFromPathWithFS
LoadTicketsFromPathWithFS(prim, fault) ==
    IF fault = "ReadFile" \/ prim = Absent THEN NewTicketStorage
    ELSE LET storage == Unmarshal(prim)
         IN  IF ~storage.ok THEN NewTicketStorage
             ELSE [Tickets |-> storage.Tickets,
                   NextID |-> IF storage.NextID = 0 THEN 1 ELSE storage.NextID]

\* LoadTicketsWithFS
LoadTicketsWithFS(prim, fault) ==
    IF fault = "UserHomeDir" THEN NewTicketStorage
    ELSE LoadTicketsFromPathWithFS(prim, fault)

\* RestoreFromBackupUsing without the json.Unmarshal validation
RestoreFromBackupUsing_NoValidation(prim, bks, name, fault) ==
    IF fault = "UserHomeDir" THEN [primary |-> prim, err |-> "home"]
    ELSE IF fault # "Stat" /\ bks[name] = Absent
         THEN [primary |-> prim, err |-> "backup file not found"]
    ELSE IF fault = "ReadFile" \/ bks[name] = Absent
         THEN [primary |-> prim, err |-> "failed to read backup file"]
    ELSE IF fault = "WriteFile"
         THEN [primary |-> prim, err |-> "failed to restore from backup"]
    ELSE IF fault = "WriteFileTrunc"
         THEN [primary |-> Garbage, err |-> "failed to restore from backup"]
    ELSE [primary |-> bks[name], err |-> "none"]

\* RestoreFromBackupUsing writing the decoded storage back, not the bytes read
RestoreFromBackupUsing_Reencoded(prim, bks, name, fault) ==
    IF fault = "UserHomeDir" THEN [primary |-> prim, err |-> "home"]
    ELSE IF fault # "Stat" /\ bks[name] = Absent
         THEN [primary |-> prim, err |-> "backup file not found"]
    ELSE IF fault = "ReadFile" \/ bks[name] = Absent
         THEN [primary |-> prim, err |-> "failed to read backup file"]
    ELSE IF ~Unmarshal(bks[name]).ok
         THEN [primary |-> prim, err |-> "backup file is corrupted"]
    ELSE IF fault = "WriteFile"
         THEN [primary |-> prim, err |-> "failed to restore from backup"]
    ELSE IF fault = "WriteFileTrunc"
         THEN [primary |-> Garbage, err |-> "failed to restore from backup"]
    ELSE [primary |-> MarshalIndent(Unmarshal(bks[name]).Tickets,
                                    Unmarshal(bks[name]).NextID),
          err |-> "none"]

\* RestoreFromBackupUsing that checks the backup and leaves tickets.json
\* as it is
RestoreFromBackupUsing_NoWrite(prim, bks, name, fault) ==
    IF fault = "UserHomeDir" THEN [primary |-> prim, err |-> "home"]
    ELSE IF fault # "Stat" /\ bks[name] = Absent
         THEN [primary |-> prim, err |-> "backup file not found"]
    ELSE IF fault = "ReadFile" \/ bks[name] = Absent
         THEN [primary |-> prim, err |-> "failed to read backup file"]
    ELSE IF ~Unmarshal(bks[name]).ok
         THEN [primary |-> prim, err |-> "backup file is corrupted"]
    ELSE IF fault \in {"WriteFile", "WriteFileTrunc"}
         THEN [primary |-> prim, err |-> "failed to restore from backup"]
    ELSE [primary |-> prim, err |-> "none"]

\* RestoreFromBackupUsing, backupName being the backup of timestamp name
RestoreFromBackupUsing(prim, bks, name, fault) ==
    IF fault = "UserHomeDir" THEN [primary |-> prim, err |-> "home"]
    ELSE IF fault # "Stat" /\ bks[name] = Absent
         THEN [primary |-> prim, err |-> "backup file not found"]
    ELSE IF fault = "ReadFile" \/ bks[name] = Absent
         THEN [primary |-> prim, err |-> "failed to read backup file"]
    ELSE IF ~Unmarshal(bks[name]).ok
         THEN [primary |-> prim, err |-> "backup file is corrupted"]
    ELSE IF fault = "WriteFile"
         THEN [primary |-> prim, err |-> "failed to restore from backup"]
    ELSE IF fault = "WriteFileTrunc"
         THEN [primary |-> Garbage, err |-> "failed to restore from backup"]
    ELSE [primary |-> bks[name], err |-> "none"]

\* strings.HasPrefix
HasPrefix(s, prefix) ==
    Len(s) >= Len(prefix) /\ SubSeq(s, 1, Len(prefix)) = prefix

\* strings.HasSuffix
HasSuffix(s, suffix) ==
    Len(s) >= Len(suffix) /\ SubSeq(s, Len(s) - Len(suffix) + 1, Len(s)) = suffix

\* "tickets.json"
TicketsFile == <<"t", "i", "c", "k", "e", "t", "s", ".", "j", "s", "o", "n">>

\* "tickets_backup_"
BackupPrefix ==
    <<"t", "i", "c", "k", "e", "t", "s", "_", "b", "a", "c", "k", "u", "p", "_">>

\* ".json"
BackupSuffix == <<".", "j", "s", "o", "n">>

\* time.Now().Format("2006-01-02_15-04-05") at second t of the model clock
Timestamp(t) ==
    <<"2", "0", "0", "6", "-", "0", "1", "-", "0", "2", "_", "1", "5", "-", "0", "4", "-", "0">>
        \o << <<"0", "1", "2", "3", "4", "5", "6", "7", "8", "9">>[t + 1] >>

\* fmt.Sprintf("tickets_backup_%s.json", timestamp)
BackupName(t) == BackupPrefix \o Timestamp(t) \o BackupSuffix

\* what else the directory .gotickets holds: a text file, a directory and
\* files whose names have part of the pattern of a backup name, or all of it
OtherEntries ==
    { [name |-> <<"n", "o", "t", "e", "s", ".", "t", "x", "t">>, isDir |-> FALSE],
      [name |-> <<"t", "i", "c", "k", "e", "t", "s", "_", "b", "a", "c", "k", "u", "p", "_", "d", ".", "j", "s", "o", "n">>,
       isDir |-> TRUE],
      [name |-> <<"t", "i", "c", "k", "e", "t", "s", "_", "b", "a", "c", "k", "u", "p", "_", ".", "j", "s", "o", "n">>,
       isDir |-> FALSE],
      [name |-> <<"t", "i", "c", "k", "e", "t", "s", "_", "b", "a", "c", "k", "u", "p", "_", "1", ".", "t", "x", "t">>,
       isDir |-> FALSE],
      [name |-> <<"x", "t", "i", "c", "k", "e", "t", "s", "_", "b", "a", "c", "k", "u", "p", "_", "1", ".", "j", "s", "o", "n">>,
       isDir |-> FALSE] }

\* fs.ReadDir(dataDir): the entries of .gotickets
ReadDir(prim, bks) ==
    (IF prim = Absent THEN {} ELSE {[name |-> TicketsFile, isDir |-> FALSE]})
    \cup {[name |-> BackupName(t), isDir |-> FALSE] : t \in {u \in DOMAIN bks : bks[u] # Absent}}
    \cup OtherEntries

\* ListBackupsUsing with the directory filter left out
ListBackupsUsing_NoDirCheck(entries, fault) ==
    IF fault = "UserHomeDir" THEN [backups |-> {}, err |-> "home"]
    ELSE IF fault = "ReadDir" THEN [backups |-> {}, err |-> "readdir"]
    ELSE [backups |-> {e.name : e \in {x \in entries :
                                          /\ HasPrefix(x.name, BackupPrefix)
                                          /\ HasSuffix(x.name, BackupSuffix)}},
          err |-> "none"]

\* ListBackupsUsing: the names returned (as a set: the order is that of
\* ReadDir) and the error
ListBackupsUsing(entries, fault) ==
    IF fault = "UserHomeDir" THEN [backups |-> {}, err |-> "home"]
    ELSE IF fault = "ReadDir" THEN [backups |-> {}, err |-> "readdir"]
    ELSE [backups |-> {e.name : e \in {x \in entries :
                                          /\ ~x.isDir
                                          /\ HasPrefix(x.name, BackupPrefix)
                                          /\ HasSuffix(x.name, BackupSuffix)}},
          err |-> "none"]

----------------------------------------------------------------------------
(* Bulk import *)

\* the separator of ImportFromFile: " - "
Separator == <<" ", "-", " ">>

\* a fresh ImportResult, carried with the store through the scan loop
NewImport(tickets, nextID, bks) ==
    [Tickets |-> tickets, NextID |-> nextID, backups |-> bks,
     Added |-> 0, Duplicates |-> 0, Errors |-> 0, ErrorLines |-> <<>>]

\* AddTicket returning early when its backup attempt fails
AddTicket_StopsOnBackupError(tickets, nextID, prim, bks, now, title, url, bfault) ==
    LET b == CreateBackupUsing(prim, bks, now, bfault)
        a == IF b.err = "none" THEN AppendTicket(tickets, nextID, title, url, now)
             ELSE [Tickets |-> tickets, NextID |-> nextID]
    IN  [Tickets |-> a.Tickets, NextID |-> a.NextID, backups |-> b.backups,
         backupErr |-> b.err]

\* AddTicket: the backup attempt, whose error is only printed, then the append
\* AddTicket backing up the store in memory in place of tickets.json
AddTicket_BacksUpMemory(tickets, nextID, prim, bks, now, title, url, bfault) ==
    LET b == CreateBackupUsing(MarshalIndent(tickets, nextID), bks, now, bfault)
        a == AppendTicket(tickets, nextID, title, url, now)
    IN  [Tickets |-> a.Tickets, NextID |-> a.NextID, backups |-> b.backups,
         backupErr |-> b.err]

AddTicket(tickets, nextID, prim, bks, now, title, url, bfault) ==
    LET b == CreateBackupUsing(prim, bks, now, bfault)
        a == AppendTicket(tickets, nextID, title, url, now)
    IN  [Tickets |-> a.Tickets, NextID |-> a.NextID, backups |-> b.backups,
         backupErr |-> b.err]

\* DeleteTicket taking its backup only when it finds the id
DeleteTicket_BackupWhenFound(tickets, prim, bks, now, id, bfault) ==
    LET r == RemoveTicket(tickets, id)
        b == IF r.ok THEN CreateBackupUsing(prim, bks, now, bfault)
             ELSE [backups |-> bks, err |-> "none"]
    IN  [Tickets |-> r.Tickets, ok |-> r.ok, backups |-> b.backups,
         backupErr |-> b.err]

\* DeleteTicket: the backup attempt, then the removal
DeleteTicket(tickets, prim, bks, now, id, bfault) ==
    LET b == CreateBackupUsing(prim, bks, now, bfault)
        r == RemoveTicket(tickets, id)
    IN  [Tickets |-> r.Tickets, ok |-> r.ok, backups |-> b.backups,
         backupErr |-> b.err]

\* ScanLine without the skip of empty lines
ScanLine_NoBlankSkip(st, text, lineNumber, prim, now, bfault) ==
    LET line == TrimSpace(text)
        parts == SplitN2(line, Separator)
    IN  IF Len(parts) # 2
        THEN [st EXCEPT !.Errors = @ + 1,
                        !.ErrorLines = Append(@, [line |-> lineNumber,
                                                  msg |-> "invalid format"])]
        ELSE LET url == TrimSpace(parts[1])
                 title == TrimSpace(parts[2])
             IN  IF url = <<>> \/ title = <<>>
                 THEN [st EXCEPT !.Errors = @ + 1,
                                 !.ErrorLines = Append(@, [line |-> lineNumber,
                                                           msg |-> "empty URL or title"])]
                 ELSE IF HasTicketWithURL(st.Tickets, url)
                 THEN [st EXCEPT !.Duplicates = @ + 1]
                 ELSE LET a == AddTicket(st.Tickets, st.NextID, prim, st.backups,
                                         now, title, url, bfault)
                      IN  [st EXCEPT !.Tickets = a.Tickets, !.NextID = a.NextID,
                                     !.backups = a.backups, !.Added = @ + 1]

\* ScanLine numbering the lines from 0
ScanLine_ZeroBased(st, text, lineNumber, prim, now, bfault) ==
    LET line == TrimSpace(text)
        parts == SplitN2(line, Separator)
    IN  IF line = <<>> THEN st
        ELSE IF Len(parts) # 2
        THEN [st EXCEPT !.Errors = @ + 1,
                        !.ErrorLines = Append(@, [line |-> lineNumber - 1,
                                                  msg |-> "invalid format"])]
        ELSE LET url == TrimSpace(parts[1])
                 title == TrimSpace(parts[2])
             IN  IF url = <<>> \/ title = <<>>
                 THEN [st EXCEPT !.Errors = @ + 1,
                                 !.ErrorLines = Append(@, [line |-> lineNumber - 1,
                                                           msg |-> "empty URL or title"])]
                 ELSE IF HasTicketWithURL(st.Tickets, url)
                 THEN [st EXCEPT !.Duplicates = @ + 1]
                 ELSE LET a == AddTicket(st.Tickets, st.NextID, prim, st.backups,
                                         now, title, url, bfault)
                      IN  [st EXCEPT !.Tickets = a.Tickets, !.NextID = a.NextID,
                                     !.backups = a.backups, !.Added = @ + 1]

\* one turn of the scan loop of ImportFromFile on the line numbered lineNumber
ScanLine(st, text, lineNumber, prim, now, bfault) ==
    LET line == TrimSpace(text)
        parts == SplitN2(line, Separator)
    IN  IF line = <<>> THEN st
        ELSE IF Len(parts) # 2
        THEN [st EXCEPT !.Errors = @ + 1,
                        !.ErrorLines = Append(@, [line |-> lineNumber,
                                                  msg |-> "invalid format"])]
        ELSE LET url == TrimSpace(parts[1])
                 title == TrimSpace(parts[2])
             IN  IF url = <<>> \/ title = <<>>
                 THEN [st EXCEPT !.Errors = @ + 1,
                                 !.ErrorLines = Append(@, [line |-> lineNumber,
                                                           msg |-> "empty URL or title"])]
                 ELSE IF HasTicketWithURL(st.Tickets, url)
                 THEN [st EXCEPT !.Duplicates = @ + 1]
                 ELSE LET a == AddTicket(st.Tickets, st.NextID, prim, st.backups,
                                         now, title, url, bfault)
                      IN  [st EXCEPT !.Tickets = a.Tickets, !.NextID = a.NextID,
                                     !.backups = a.backups, !.Added = @ + 1]

\* the scan loop: the state after each of the turns 0..Len(lines), the
\* state after k turns at position k + 1
RECURSIVE ScanLines(_, _, _, _, _, _)
ScanLines(st, lines, n, prim, now, bfault) ==
    IF n = 0 THEN <<st>>
    ELSE LET before == ScanLines(st, lines, n - 1, prim, now, bfault)
         IN  Append(before, ScanLine(before[n], lines[n], n, prim, now, bfault))

\* ImportFromFile up to the scan loop: the backup attempt and the new result
ImportStart(tickets, nextID, prim, bks, now, bfault) ==
    NewImport(tickets, nextID, CreateBackupUsing(prim, bks, now, bfault).backups)

\* ImportFromFile counting the failed Open as an error of the result
ImportFromFile_OpenCounted(scan, total, opens, readTo) ==
    IF ~opens THEN [st |-> [scan[1] EXCEPT !.Errors = @ + 1], err |-> "open"]
    ELSE [st |-> scan[readTo + 1],
          err |-> IF readTo < total THEN "read" ELSE "none"]

\* ImportFromFile undoing the scan loop when the stream fails
ImportFromFile_RollsBack(scan, total, opens, readTo) ==
    IF ~opens THEN [st |-> scan[1], err |-> "open"]
    ELSE IF readTo < total THEN [st |-> scan[1], err |-> "read"]
    ELSE [st |-> scan[readTo + 1], err |-> "none"]

\* what ImportFromFile returns, scan holding the states of the scan loop.
\* opens: fs.Open succeeds; readTo: the number of lines the scanner
\* delivers, fewer than total when the stream fails partway
ImportFromFile(scan, total, opens, readTo) ==
    IF ~opens THEN [st |-> scan[1], err |-> "open"]
    ELSE [st |-> scan[readTo + 1],
          err |-> IF readTo < total THEN "read" ELSE "none"]

----------------------------------------------------------------------------
(* Inputs of the model *)

\* the import text of TestTicketStorage_ImportFromFile
\* line 1: [https://example.com/1 - First Ticket]
\* line 2: [https://example.com/2 - Second Ticket]
\* line 3: [https://example.com/3 - Third Ticket]
\* line 4: [https://example.com/1 - Duplicate First Ticket]
\* line 5: [invalid line without dash]
\* line 6: [ - Empty URL]
\* line 7: [https://example.com/4 - ]
ExampleFile ==
    <<<<"h", "t", "t", "p", "s", ":", "/", "/", "e", "x", "a", "m", "p", "l",
      "e", ".", "c", "o", "m", "/", "1", " ", "-", " ", "F", "i", "r", "s",
      "t", " ", "T", "i", "c", "k", "e", "t">>,
      <<"h", "t", "t", "p", "s", ":", "/", "/", "e", "x", "a", "m", "p", "l",
      "e", ".", "c", "o", "m", "/", "2", " ", "-", " ", "S", "e", "c", "o",
      "n", "d", " ", "T", "i", "c", "k", "e", "t">>,
      <<"h", "t", "t", "p", "s", ":", "/", "/", "e", "x", "a", "m", "p", "l",
      "e", ".", "c", "o", "m", "/", "3", " ", "-", " ", "T", "h", "i", "r",
      "d", " ", "T", "i", "c", "k", "e", "t">>,
      <<"h", "t", "t", "p", "s", ":", "/", "/", "e", "x", "a", "m", "p", "l",
      "e", ".", "c", "o", "m", "/", "1", " ", "-", " ", "D", "u", "p", "l",
      "i", "c", "a", "t", "e", " ", "F", "i", "r", "s", "t", " ", "T", "i",
      "c", "k", "e", "t">>,
      <<"i", "n", "v", "a", "l", "i", "d", " ", "l", "i", "n", "e", " ", "w",
      "i", "t", "h", "o", "u", "t", " ", "d", "a", "s", "h">>,
      <<" ", "-", " ", "E", "m", "p", "t", "y", " ", "U", "R", "L">>,
      <<"h", "t", "t", "p", "s", ":", "/", "/", "e", "x", "a", "m", "p", "l",
      "e", ".", "c", "o", "m", "/", "4", " ", "-", " ">>>>

\* what TestTicketStorage_ImportFromFile expects the store to hold
expectedTickets ==
    << [url |-> <<"h", "t", "t", "p", "s", ":", "/", "/", "e", "x", "a",
                "m", "p", "l", "e", ".", "c", "o", "m", "/", "1">>,
        title |-> <<"F", "i", "r", "s", "t", " ", "T", "i", "c", "k", "e",
                  "t">>],
       [url |-> <<"h", "t", "t", "p", "s", ":", "/", "/", "e", "x", "a",
                "m", "p", "l", "e", ".", "c", "o", "m", "/", "2">>,
        title |-> <<"S", "e", "c", "o", "n", "d", " ", "T", "i", "c", "k",
                  "e", "t">>],
       [url |-> <<"h", "t", "t", "p", "s", ":", "/", "/", "e", "x", "a",
                "m", "p", "l", "e", ".", "c", "o", "m", "/", "3">>,
        title |-> <<"T", "h", "i", "r", "d", " ", "T", "i", "c", "k", "e",
                  "t">>] >>

\* a file with a blank line, a URL that differs from another in case only, a
\* second separator, surrounding white space and a line without separator
\* line 1: [u1 - Ab]
\* line 2: [  ]
\* line 3: [U1 - x - y]
\* line 4: [<tab>U&2 - b" ]
\* line 5: [nodash]
SmallFile ==
    <<<<"u", "1", " ", "-", " ", "A", "b">>,
      <<" ", " ">>,
      <<"U", "1", " ", "-", " ", "x", " ", "-", " ", "y">>,
      <<"\t", "U", "&", "2", " ", "-", " ", "b", "\"", " ">>,
      <<"n", "o", "d", "a", "s", "h">>>>

\* a file of one line, with white space around the URL and the title
\* line 1: [ U&2  -  b"]
OneLineFile ==
    << <<" ", "U", "&", "2", " ", " ", "-", " ", " ", "b", "\"">> >>

\* a file with a blank line, then a line without separator, then a
\* well-formed line
\* line 1: []
\* line 2: [nodash]
\* line 3: [u1 - Ab]
BlankFirstFile ==
    << <<>>,
       <<"n", "o", "d", "a", "s", "h">>,
       <<"u", "1", " ", "-", " ", "A", "b">> >>

\* the files offered to ImportFromFile
ImportFiles == <<ExampleFile, SmallFile, OneLineFile, BlankFirstFile>>

\* the lines of the import files as lines 183-199 of ImportFromFile read
\* them: whether the line has a URL and a title, and the URL
ParsedLines ==
    [f \in DOMAIN ImportFiles |->
        [n \in DOMAIN ImportFiles[f] |->
            LET parts == SplitN2(TrimSpace(ImportFiles[f][n]), Separator)
            IN  IF /\ Len(parts) = 2
                   /\ TrimSpace(parts[1]) # <<>>
                   /\ TrimSpace(parts[2]) # <<>>
                THEN [wellFormed |-> TRUE, url |-> TrimSpace(parts[1])]
                ELSE [wellFormed |-> FALSE, url |-> <<>>]]]

\* the lines of the import files cut at the first place where the
\* separator stands: the trimmed text, whether the separator is in it, the
\* trimmed text before that place and the trimmed text after the separator
FirstSplit ==
    [f \in DOMAIN ImportFiles |->
        [n \in DOMAIN ImportFiles[f] |->
            LET text == TrimSpace(ImportFiles[f][n])
                places == {j \in 1..(Len(text) - Len(Separator) + 1) :
                              SubSeq(text, j, j + Len(Separator) - 1) = Separator}
                first == CHOOSE j \in places : \A k \in places : j <= k
            IN  IF places = {}
                THEN [text |-> text, has |-> FALSE, url |-> <<>>, title |-> <<>>]
                ELSE [text |-> text, has |-> TRUE,
                      url |-> TrimSpace(SubSeq(text, 1, first - 1)),
                      title |-> TrimSpace(SubSeq(text, first + Len(Separator),
                                                 Len(text)))]]]

\* the cases of TestTicket_ExtractTicketNumber (ticket_test.go and
\* test/unit/storage_test.go), each with ticket id 1
ExtractTests ==
    {
      \* https://github.com/user/repo/issues/123
      [url |->
              <<"h", "t", "t", "p", "s", ":", "/", "/", "g", "i", "t",
              "h", "u", "b", ".", "c", "o", "m", "/", "u", "s", "e",
              "r", "/", "r", "e", "p", "o", "/", "i", "s", "s", "u",
              "e", "s", "/", "1", "2", "3">>,
       expected |-> <<"1", "2", "3">>],
      \* https://github.com/user/repo/issues/456/
      [url |->
              <<"h", "t", "t", "p", "s", ":", "/", "/", "g", "i", "t",
              "h", "u", "b", ".", "c", "o", "m", "/", "u", "s", "e",
              "r", "/", "r", "e", "p", "o", "/", "i", "s", "s", "u",
              "e", "s", "/", "4", "5", "6", "/">>,
       expected |-> <<"4", "5", "6">>],
      \* https://company.atlassian.net/browse/PROJ-789
      [url |->
              <<"h", "t", "t", "p", "s", ":", "/", "/", "c", "o", "m",
              "p", "a", "n", "y", ".", "a", "t", "l", "a", "s", "s",
              "i", "a", "n", ".", "n", "e", "t", "/", "b", "r", "o",
              "w", "s", "e", "/", "P", "R", "O", "J", "-", "7", "8",
              "9">>,
       expected |-> <<"7", "8", "9">>],
      \* https://tracker.example.com/issues/424846
      [url |->
              <<"h", "t", "t", "p", "s", ":", "/", "/", "t", "r", "a",
              "c", "k", "e", "r", ".", "e", "x", "a", "m", "p", "l",
              "e", ".", "c", "o", "m", "/", "i", "s", "s", "u", "e",
              "s", "/", "4", "2", "4", "8", "4", "6">>,
       expected |-> <<"4", "2", "4", "8", "4", "6">>],
      \* https://example.com/task=999888
      [url |->
              <<"h", "t", "t", "p", "s", ":", "/", "/", "e", "x", "a",
              "m", "p", "l", "e", ".", "c", "o", "m", "/", "t", "a",
              "s", "k", "=", "9", "9", "9", "8", "8", "8">>,
       expected |-> <<"9", "9", "9", "8", "8", "8">>],
      \* https://example.com/tickets/111222
      [url |->
              <<"h", "t", "t", "p", "s", ":", "/", "/", "e", "x", "a",
              "m", "p", "l", "e", ".", "c", "o", "m", "/", "t", "i",
              "c", "k", "e", "t", "s", "/", "1", "1", "1", "2", "2",
              "2">>,
       expected |-> <<"1", "1", "1", "2", "2", "2">>],
      \* https://example.com/project/123/issues/456789
      [url |->
              <<"h", "t", "t", "p", "s", ":", "/", "/", "e", "x", "a",
              "m", "p", "l", "e", ".", "c", "o", "m", "/", "p", "r",
              "o", "j", "e", "c", "t", "/", "1", "2", "3", "/", "i",
              "s", "s", "u", "e", "s", "/", "4", "5", "6", "7", "8",
              "9">>,
       expected |-> <<"4", "5", "6", "7", "8", "9">>],
      \* https://example.com/some/path
      [url |->
              <<"h", "t", "t", "p", "s", ":", "/", "/", "e", "x", "a",
              "m", "p", "l", "e", ".", "c", "o", "m", "/", "s", "o",
              "m", "e", "/", "p", "a", "t", "h">>,
       expected |-> <<"0", "0", "0", "0", "0", "1">>],
      \* https://jira.example.com/PROJ-123
      [url |->
              <<"h", "t", "t", "p", "s", ":", "/", "/", "j", "i", "r",
              "a", ".", "e", "x", "a", "m", "p", "l", "e", ".", "c",
              "o", "m", "/", "P", "R", "O", "J", "-", "1", "2", "3">>,
       expected |-> <<"1", "2", "3">>],
      \* https://example.com/ticket/789
      [url |->
              <<"h", "t", "t", "p", "s", ":", "/", "/", "e", "x", "a",
              "m", "p", "l", "e", ".", "c", "o", "m", "/", "t", "i",
              "c", "k", "e", "t", "/", "7", "8", "9">>,
       expected |-> <<"7", "8", "9">>],
      \* https://example.com/tasks/task=999
      [url |->
              <<"h", "t", "t", "p", "s", ":", "/", "/", "e", "x", "a",
              "m", "p", "l", "e", ".", "c", "o", "m", "/", "t", "a",
              "s", "k", "s", "/", "t", "a", "s", "k", "=", "9", "9",
              "9">>,
       expected |-> <<"9", "9", "9">>],
      \* https://example.com/no-numbers
      [url |->
              <<"h", "t", "t", "p", "s", ":", "/", "/", "e", "x", "a",
              "m", "p", "l", "e", ".", "c", "o", "m", "/", "n", "o",
              "-", "n", "u", "m", "b", "e", "r", "s">>,
       expected |-> <<"0", "0", "0", "0", "0", "1">>] }

\* URLs are put together from these pieces
UrlPieces ==
    { <<"a">>, <<"P">>, <<"-">>, <<"P", "-">>, <<"1">>, <<"/">>, <<"/", "1">>,
      <<"/", "2">>, <<"?">>, <<"#">>, <<"t", "a", "s", "k", "=">>,
      <<"1", "2", "3", "4", "5", "6">> }

\* a URL of the model has at most MaxUrlPieces pieces
MaxUrlPieces == 4

RECURSIVE UrlsOf(_)
UrlsOf(n) ==
    IF n = 0 THEN {<<>>}
    ELSE LET shorter == UrlsOf(n - 1)
         IN  shorter \cup {u \o piece : u \in shorter, piece \in UrlPieces}

\* the URLs a ticket of the model may have
Urls == UrlsOf(MaxUrlPieces) \cup {c.url : c \in ExtractTests}

\* the (title, url) pairs offered to AddTicket
AddInputs ==
    { [title |-> <<"A", "b">>, url |-> <<"u", "1">>],
      [title |-> <<"b", "\"">>, url |-> <<"U", "&", "2">>] }

\* the queries offered to Search
Queries == { <<>>, <<"a">>, <<"B">>, <<"U", "1">>, <<"z">> }

\* a tickets.json written by a version without next_id
LegacyDoc ==
    [kind |-> "object",
     tickets |-> << [id |-> 1, title |-> <<"A", "b">>, url |-> <<"u", "1">>,
                     created_at |-> FormatTime(0)] >>]

\* a tickets.json whose next_id is 0
ZeroDoc ==
    [kind |-> "object",
     tickets |-> << [id |-> 2, title |-> <<"A", "b">>, url |-> <<"u", "1">>,
                     created_at |-> FormatTime(0)],
                    [id |-> 1, title |-> <<"b", "\\", "\"">>,
                     url |-> <<"U", "\\", "u", "0", "0", "2", "6", "2">>,
                     created_at |-> FormatTime(1)] >>,
     next_id |-> 0]

\* a tickets.json written by Save after two AddTicket calls
SavedDoc ==
    MarshalIndent(<< [ID |-> 1, Title |-> <<"A", "b">>, URL |-> <<"u", "1">>,
                      CreatedAt |-> 0],
                     [ID |-> 2, Title |-> <<"b", "\"">>, URL |-> <<"U", "&", "2">>,
                      CreatedAt |-> 0] >>, 3)

\* what tickets.json may hold when the program starts
InitialFiles == {Absent, Garbage, LegacyDoc}

----------------------------------------------------------------------------
(* The state machine *)

\* the fields of the Model that NewModel returns, its list and its
\* storage apart
\* two processes, each with a store of its own
Procs == {1, 2}

\* procs before either process made a call: pc is the call a process makes
\* next, loadedLate tells that it loaded after the other had saved, url is
\* the URL of the ticket it added, err the error its Save returned,
\* savedLast that no process saved after it did
NoProcs ==
    [p \in Procs |-> [pc |-> "load", Tickets |-> <<>>, NextID |-> 1,
                      loadedLate |-> FALSE, url |-> <<>>, err |-> "none",
                      savedLast |-> FALSE]]

\* held while no slice is held: array is the array under ts.Tickets up to
\* its capacity, has tells that Search returned a slice that is still held,
\* aliased that the slice lies in array (it is then the first len elements
\* of it), items what a slice with an array of its own holds, returned what
\* the slice held when Search returned it
NoHeld ==
    [array |-> <<>>, has |-> FALSE, aliased |-> FALSE, len |-> 0,
     items |-> <<>>, returned |-> <<>>]

NewModel ==
    [viewMode |-> "ViewList", textInput |-> <<>>, searchMode |-> FALSE,
     searchQuery |-> <<>>, tempURL |-> <<>>, ticketToDelete |-> -1,
     backups |-> <<>>, backupToRestore |-> <<>>, selectedBackupIndex |-> -1,
     urlError |-> "", list |-> <<>>]

NoCall ==
    [op |-> "new", id |-> 0, title |-> <<>>, url |-> <<>>, query |-> <<>>,
     file |-> 0, name |-> 0, ok |-> FALSE, result |-> <<>>, names |-> {},
     Added |-> 0, Duplicates |-> 0, Errors |-> 0, ErrorLines |-> <<>>,
     err |-> "none", fault |-> "none", backupErr |-> "none", readTo |-> 0,
     key |-> "", view |-> "", proc |-> 0]

\* hist of a store made by NewTicketStorage: fresh while only its own methods
\* changed it, onlyAdds while only AddTicket was called, assigned the ids
\* handed out so far, in order
\* watch tells how far the last calls went along a rollback: a save
\* (stage 1: Tickets and NextID are the store it saved), then a mutating
\* call that made the backup of timestamp name (stage 2), then a further
\* save (stage 3: thenTickets and thenNextID are the store it saved), then
\* RestoreFromBackup of that backup (stage 4), then a load (stage 5).
\* Stage 0: the last calls are no beginning of a rollback
NoWatch == [stage |-> 0, Tickets |-> <<>>, NextID |-> 0, name |-> 0,
            thenTickets |-> <<>>, thenNextID |-> 0]

NewHist == [fresh |-> TRUE, onlyAdds |-> TRUE, assigned |-> <<>>, watch |-> NoWatch]
\* hist of a store whose history is not kept
NoHist == [fresh |-> FALSE, onlyAdds |-> FALSE, assigned |-> <<>>, watch |-> NoWatch]

\* hist after a call that assigned the ids newIds, in order
Record(h, isAdd, newIds) ==
    [fresh |-> h.fresh,
     onlyAdds |-> h.onlyAdds /\ isAdd,
     assigned |-> IF h.fresh THEN h.assigned \o newIds ELSE <<>>,
     watch |-> h.watch]

\* watch after the call call, made at the second now on a store that held
\* tickets and nextID when it was called
WatchCall(w, call, tickets, nextID, now) ==
    LET saved == [NoWatch EXCEPT !.stage = 1, !.Tickets = tickets,
                                 !.NextID = nextID]
    IN  CASE call.op = "save" /\ call.err = "none" ->
                IF w.stage = 2
                THEN [w EXCEPT !.stage = 3, !.thenTickets = tickets,
                               !.thenNextID = nextID]
                ELSE saved
          [] call.op \in {"add", "delete", "import"} /\ call.backupErr = "none" ->
                IF w.stage = 1 THEN [w EXCEPT !.stage = 2, !.name = now]
                ELSE IF w.stage = 3
                THEN [NoWatch EXCEPT !.stage = 2, !.Tickets = w.thenTickets,
                                     !.NextID = w.thenNextID, !.name = now]
                ELSE NoWatch
          [] call.op = "restore" /\ call.err = "none" ->
                IF w.stage = 3 /\ call.name = w.name
                THEN [w EXCEPT !.stage = 4]
                ELSE NoWatch
          [] call.op = "load" /\ call.fault = "none" ->
                IF w.stage = 4 THEN [w EXCEPT !.stage = 5] ELSE NoWatch
          [] OTHER -> NoWatch

\* the ids of the tickets a call appended
NewIds(before, after) ==
    [i \in 1..(Len(after) - Len(before)) |-> after[Len(before) + i].ID]

Init ==
    /\ Tickets = NewTicketStorage.Tickets
    /\ NextID = NewTicketStorage.NextID
    /\ primary = Absent
    /\ backups = [t \in Times |-> Absent]
    /\ clock \in Times
    /\ lastOp = NoCall
    /\ hist = NewHist
    /\ model = NewModel
    /\ procs = NoProcs
    /\ held = NoHeld

DoAddTicketOf(inputs, maxId, faults) ==
    /\ NextID <= maxId
    /\ \E in \in inputs, bf \in faults :
       \E a \in {AddTicket(Tickets, NextID, primary, backups, clock, in.title, in.url, bf)} :
          /\ Tickets' = a.Tickets
          /\ NextID' = a.NextID
          /\ backups' = a.backups
          /\ lastOp' = [NoCall EXCEPT !.op = "add", !.title = in.title,
                                      !.url = in.url, !.backupErr = a.backupErr]
          /\ hist' = Record(hist, TRUE, NewIds(Tickets, a.Tickets))
    /\ UNCHANGED <<procs, held, model, primary, clock>>

DoAddTicket(maxId, faults) == DoAddTicketOf(AddInputs, maxId, faults)

\* DeleteTicket that also writes the store to tickets.json
DoDeleteTicket_Saves(maxId, faults) ==
    /\ \E id \in 0..maxId, bf \in faults :
       \E d \in {DeleteTicket(Tickets, primary, backups, clock, id, bf)} :
          /\ Tickets' = d.Tickets
          /\ backups' = d.backups
          /\ primary' = SaveFile(d.Tickets, NextID, primary, "none").primary
          /\ lastOp' = [NoCall EXCEPT !.op = "delete", !.id = id, !.ok = d.ok,
                                      !.backupErr = d.backupErr]
          /\ hist' = Record(hist, FALSE, <<>>)
    /\ UNCHANGED <<procs, held, model, NextID, clock>>

DoDeleteTicket(maxId, faults) ==
    /\ \E id \in 0..maxId, bf \in faults :
       \E d \in {DeleteTicket(Tickets, primary, backups, clock, id, bf)} :
          /\ Tickets' = d.Tickets
          /\ backups' = d.backups
          /\ lastOp' = [NoCall EXCEPT !.op = "delete", !.id = id, !.ok = d.ok,
                                      !.backupErr = d.backupErr]
          /\ hist' = Record(hist, FALSE, <<>>)
    /\ UNCHANGED <<procs, held, model, NextID, primary, clock>>

DoHasTicketWithURL ==
    /\ \E u \in { <<>>, <<"u", "1">>, <<"U", "1">>, <<"U", "&", "2">> } :
          lastOp' = [NoCall EXCEPT !.op = "has", !.url = u,
                                   !.ok = HasTicketWithURL(Tickets, u)]
    /\ UNCHANGED <<procs, held, model, Tickets, NextID, primary, backups, clock, hist>>

DoSearch ==
    /\ \E q \in Queries :
          lastOp' = [NoCall EXCEPT !.op = "search", !.query = q,
                                   !.result = Search(Tickets, q)]
    /\ hist' = Record(hist, FALSE, <<>>)
    /\ UNCHANGED <<procs, held, model, Tickets, NextID, primary, backups, clock>>

DoImportFromFile(maxId, files, faults) ==
    /\ \E f \in files, bf \in faults :
       \E scan \in {ScanLines(ImportStart(Tickets, NextID, primary, backups, clock, bf),
                              ImportFiles[f], Len(ImportFiles[f]), primary, clock, bf)} :
       \E opens \in BOOLEAN :
       \E readTo \in IF opens THEN 0..Len(ImportFiles[f]) ELSE {0} :
       \E r \in {ImportFromFile(scan, Len(ImportFiles[f]), opens, readTo)} :
          /\ r.st.NextID <= maxId + 1
          /\ Tickets' = r.st.Tickets
          /\ NextID' = r.st.NextID
          /\ backups' = r.st.backups
          /\ lastOp' = [NoCall EXCEPT !.op = "import", !.file = f,
                                      !.Added = r.st.Added,
                                      !.Duplicates = r.st.Duplicates,
                                      !.Errors = r.st.Errors,
                                      !.ErrorLines = r.st.ErrorLines,
                                      !.err = r.err,
                                      !.readTo = readTo,
                                      !.backupErr =
                                          CreateBackupUsing(primary, backups,
                                                            clock, bf).err]
          /\ hist' = Record(hist, FALSE, NewIds(Tickets, r.st.Tickets))
    /\ UNCHANGED <<procs, held, model, primary, clock>>

DoSave(faults) ==
    /\ \E f \in faults :
       \E r \in {SaveFile(Tickets, NextID, primary, f)} :
          /\ primary' = r.primary
          /\ lastOp' = [NoCall EXCEPT !.op = "save", !.err = r.err]
    /\ hist' = Record(hist, FALSE, <<>>)
    /\ UNCHANGED <<procs, held, model, Tickets, NextID, backups, clock>>

DoLoad(faults) ==
    /\ \E f \in faults :
       \E r \in {LoadTicketsWithFS(primary, f)} :
          /\ Tickets' = r.Tickets
          /\ NextID' = r.NextID
          /\ lastOp' = [NoCall EXCEPT !.op = "load", !.fault = f]
    /\ hist' = NoHist
    /\ UNCHANGED <<procs, held, model, primary, backups, clock>>

Tick ==
    /\ clock < MaxClock
    /\ clock' = clock + 1
    /\ lastOp' = [NoCall EXCEPT !.op = "tick"]
    /\ UNCHANGED <<procs, held, model, Tickets, NextID, primary, backups, hist>>

DoCreateBackup(faults) ==
    /\ \E f \in faults :
       \E b \in {CreateBackupUsing(primary, backups, clock, f)} :
          /\ backups' = b.backups
          /\ lastOp' = [NoCall EXCEPT !.op = "backup", !.err = b.err, !.fault = f]
    /\ UNCHANGED <<procs, held, model, Tickets, NextID, primary, clock, hist>>

DoListBackups(faults) ==
    /\ \E f \in faults :
       \E l \in {ListBackupsUsing(ReadDir(primary, backups), f)} :
          lastOp' = [NoCall EXCEPT !.op = "list", !.names = l.backups,
                                   !.err = l.err, !.fault = f]
    /\ UNCHANGED <<procs, held, model, Tickets, NextID, primary, backups, clock, hist>>

\* RestoreFromBackupUsing also loading the restored file into the store
DoRestoreFromBackup_Hydrates(faults) ==
    /\ \E name \in Times, f \in faults :
       \E r \in {RestoreFromBackupUsing(primary, backups, name, f)} :
          /\ primary' = r.primary
          /\ lastOp' = [NoCall EXCEPT !.op = "restore", !.name = name,
                                      !.err = r.err]
          /\ Tickets' = IF r.err = "none"
                        THEN LoadTicketsWithFS(r.primary, "none").Tickets
                        ELSE Tickets
          /\ NextID' = IF r.err = "none"
                       THEN LoadTicketsWithFS(r.primary, "none").NextID
                       ELSE NextID
    /\ UNCHANGED <<procs, held, model, backups, clock, hist>>

DoRestoreFromBackup(faults) ==
    /\ \E name \in Times, f \in faults :
       \E r \in {RestoreFromBackupUsing(primary, backups, name, f)} :
          /\ primary' = r.primary
          /\ lastOp' = [NoCall EXCEPT !.op = "restore", !.name = name,
                                      !.err = r.err]
    /\ UNCHANGED <<procs, held, model, Tickets, NextID, backups, clock, hist>>

\* The calls of the store and of its file with the rollback watched: each
\* is the call of the same name above, and hist.watch follows it
WatchedAddTicket(maxId, faults) ==
    /\ NextID <= maxId
    /\ \E in \in AddInputs, bf \in faults :
       \E a \in {AddTicket(Tickets, NextID, primary, backups, clock, in.title, in.url, bf)} :
          /\ Tickets' = a.Tickets
          /\ NextID' = a.NextID
          /\ backups' = a.backups
          /\ lastOp' = [NoCall EXCEPT !.op = "add", !.title = in.title,
                                      !.url = in.url, !.backupErr = a.backupErr]
    /\ hist' = [hist EXCEPT !.watch = WatchCall(@, lastOp', Tickets, NextID, clock)]
    /\ UNCHANGED <<procs, held, model, primary, clock>>

WatchedDeleteTicket(maxId, faults) ==
    /\ \E id \in 0..maxId, bf \in faults :
       \E d \in {DeleteTicket(Tickets, primary, backups, clock, id, bf)} :
          /\ Tickets' = d.Tickets
          /\ backups' = d.backups
          /\ lastOp' = [NoCall EXCEPT !.op = "delete", !.id = id, !.ok = d.ok,
                                      !.backupErr = d.backupErr]
    /\ hist' = [hist EXCEPT !.watch = WatchCall(@, lastOp', Tickets, NextID, clock)]
    /\ UNCHANGED <<procs, held, model, NextID, primary, clock>>

WatchedSave(faults) ==
    /\ \E f \in faults :
       \E r \in {SaveFile(Tickets, NextID, primary, f)} :
          /\ primary' = r.primary
          /\ lastOp' = [NoCall EXCEPT !.op = "save", !.err = r.err]
    /\ hist' = [hist EXCEPT !.watch = WatchCall(@, lastOp', Tickets, NextID, clock)]
    /\ UNCHANGED <<procs, held, model, Tickets, NextID, backups, clock>>

WatchedLoad(faults) ==
    /\ \E f \in faults :
       \E r \in {LoadTicketsWithFS(primary, f)} :
          /\ Tickets' = r.Tickets
          /\ NextID' = r.NextID
          /\ lastOp' = [NoCall EXCEPT !.op = "load", !.fault = f]
    /\ hist' = [hist EXCEPT !.watch = WatchCall(@, lastOp', Tickets, NextID, clock)]
    /\ UNCHANGED <<procs, held, model, primary, backups, clock>>

WatchedRestoreFromBackup(faults) ==
    /\ \E name \in Times, f \in faults :
       \E r \in {RestoreFromBackupUsing(primary, backups, name, f)} :
          /\ primary' = r.primary
          /\ lastOp' = [NoCall EXCEPT !.op = "restore", !.name = name,
                                      !.err = r.err]
    /\ hist' = [hist EXCEPT !.watch = WatchCall(@, lastOp', Tickets, NextID, clock)]
    /\ UNCHANGED <<procs, held, model, Tickets, NextID, backups, clock>>

----------------------------------------------------------------------------
(* The terminal UI (src/internal/ui): one action per handler of a view, the *)
(* key pressed drawn from the keys given.  msg.String() names a key: the    *)
(* character for a printable key, "enter", "esc", "up", "down", "ctrl+c".   *)

\* the printable keys the text input takes
TypedChars == {"u", " "}

\* textinput.Update on a key: a printable key is put at the end of the
\* value, any other key leaves the value as it is
TextInputUpdate(value, key) ==
    IF key \in TypedChars THEN Append(value, key) ELSE value

\* the position of a name in the order of os.ReadDir (sorted by file name)
\* among the names of the model that pass for backups: "." sorts before
\* the digits, and the timestamps sort as the seconds they stand for
NameRank(name) ==
    IF \E t \in Times : name = BackupName(t)
    THEN 1 + CHOOSE t \in Times : name = BackupName(t)
    ELSE 0

\* a set of names as the slice ListBackupsUsing builds from the entries of
\* ReadDir, in their order
RECURSIVE InReadDirOrder(_)
InReadDirOrder(names) ==
    IF names = {} THEN <<>>
    ELSE LET first == CHOOSE n \in names :
                          \A o \in names : NameRank(n) <= NameRank(o)
         IN  <<first>> \o InReadDirOrder(names \ {first})

\* the files of .gotickets by name, as Stat and ReadFile find them: the
\* backups of the model, and the files of OtherEntries (a directory cannot
\* be read as a file; the other files hold no JSON document)
DirFiles(bks) ==
    [name \in {BackupName(t) : t \in DOMAIN bks} \cup {e.name : e \in OtherEntries} |->
        IF \E t \in DOMAIN bks : name = BackupName(t)
        THEN bks[CHOOSE t \in DOMAIN bks : name = BackupName(t)]
        ELSE Garbage]

\* the user is shown the prompt of a view
ViewIs(view) == model.viewMode = view /\ ~model.searchMode

\* what a handler records of the key it was given
KeyCall(key) == [NoCall EXCEPT !.op = "key", !.key = key, !.view = model.viewMode]

\* Model.handleBackups
handleBackups(m, prim, bks, fault) ==
    LET l == ListBackupsUsing(ReadDir(prim, bks), fault)
        names == InReadDirOrder(l.backups)
    IN  IF l.err # "none" THEN m
        ELSE [m EXCEPT !.backups = names,
                       !.selectedBackupIndex = IF Len(names) > 0 THEN 0 ELSE -1,
                       !.viewMode = "ViewBackups"]

\* Model.RefreshList: the items of the list are the tickets of the store
\* (the model keeps the id of each item)
RefreshList(tickets) == [i \in 1..Len(tickets) |-> tickets[i].ID]

\* Model.handleDeleteTicket, the item selected in the list being the item
\* sel (no item is selected in an empty list)
handleDeleteTicket(m, sel) ==
    IF sel \in 1..Len(m.list)
    THEN [m EXCEPT !.ticketToDelete = m.list[sel], !.viewMode = "ViewConfirmDelete"]
    ELSE m

\* Model.HandleListView, for the keys that open the views of the model and
\* for the keys that leave the model as it is; the list has any of its
\* items selected
HandleListView(keys, faults) ==
    /\ ViewIs("ViewList")
    /\ \E key \in keys, f \in faults :
       \E sel \in IF key = "d" /\ model.list # <<>> THEN 1..Len(model.list) ELSE {0} :
          /\ model' =
                CASE key = "a" ->
                        [model EXCEPT !.viewMode = "ViewAddURL", !.textInput = <<>>,
                                      !.tempURL = <<>>, !.urlError = ""]
                  [] key = "b" -> handleBackups(model, primary, backups, f)
                  [] key = "r" -> [model EXCEPT !.list = RefreshList(Tickets)]
                  [] key = "d" -> handleDeleteTicket(model, sel)
                  [] key = "i" ->
                        [model EXCEPT !.viewMode = "ViewImport", !.textInput = <<>>]
                  [] OTHER -> model
          /\ lastOp' = [KeyCall(key) EXCEPT !.fault = f]
    /\ UNCHANGED <<procs, held, Tickets, NextID, primary, backups, clock, hist>>

\* Model.handleURLSubmit without the check for a ticket of the same URL
handleURLSubmit_NoDuplicateCheck(m, tickets) ==
    LET value == TrimSpace(m.textInput)
    IN  IF value = <<>> THEN m
        ELSE [m EXCEPT !.tempURL = value, !.viewMode = "ViewAddTitle",
                       !.textInput = <<>>, !.urlError = ""]

\* Model.handleURLSubmit keeping the URL as it was typed, white space
\* included
handleURLSubmit_KeepsSpaces(m, tickets) ==
    LET value == TrimSpace(m.textInput)
    IN  IF value = <<>> THEN m
        ELSE IF HasTicketWithURL(tickets, value)
        THEN [m EXCEPT !.urlError = "a ticket with this URL already exists"]
        ELSE [m EXCEPT !.tempURL = m.textInput, !.viewMode = "ViewAddTitle",
                       !.textInput = <<>>, !.urlError = ""]

\* Model.handleURLSubmit
handleURLSubmit(m, tickets) ==
    LET value == TrimSpace(m.textInput)
    IN  IF value = <<>> THEN m
        ELSE IF HasTicketWithURL(tickets, value)
        THEN [m EXCEPT !.urlError = "a ticket with this URL already exists"]
        ELSE [m EXCEPT !.tempURL = value, !.viewMode = "ViewAddTitle",
                       !.textInput = <<>>, !.urlError = ""]

\* Model.HandleAddURL
HandleAddURL(keys) ==
    /\ ViewIs("ViewAddURL")
    /\ \E key \in keys :
          /\ key \in TypedChars => Len(model.textInput) < MaxInput
          /\ model' =
                CASE key = "ctrl+c" -> model
                  [] key = "esc" ->
                        [model EXCEPT !.viewMode = "ViewList", !.textInput = <<>>,
                                      !.tempURL = <<>>, !.urlError = ""]
                  [] key = "enter" -> handleURLSubmit(model, Tickets)
                  [] OTHER ->
                        [model EXCEPT !.urlError = "",
                                      !.textInput = TextInputUpdate(@, key)]
          /\ lastOp' = KeyCall(key)
    /\ UNCHANGED <<procs, held, Tickets, NextID, primary, backups, clock, hist>>

\* Model.HandleAddTitle; handleTitleSubmit calls AddTicket, then Save, whose
\* error it drops
HandleAddTitle(keys, maxId, bfaults, sfaults) ==
    /\ ViewIs("ViewAddTitle")
    /\ \E key \in keys, bf \in bfaults, sf \in sfaults :
       \E value \in {TrimSpace(model.textInput)} :
       \E a \in {AddTicket(Tickets, NextID, primary, backups, clock, value,
                           model.tempURL, bf)} :
       \E w \in {SaveFile(a.Tickets, a.NextID, primary, sf)} :
          /\ key \in TypedChars => Len(model.textInput) < MaxTitle
          /\ (key = "enter" /\ value # <<>>) => NextID <= maxId
          /\ IF key = "enter" /\ value # <<>>
             THEN /\ Tickets' = a.Tickets
                  /\ NextID' = a.NextID
                  /\ backups' = a.backups
                  /\ primary' = w.primary
                  /\ model' = [model EXCEPT !.viewMode = "ViewList",
                                            !.textInput = <<>>, !.tempURL = <<>>,
                                            !.list = RefreshList(a.Tickets)]
                  /\ hist' = Record(hist, TRUE, NewIds(Tickets, a.Tickets))
                  /\ lastOp' = [KeyCall(key) EXCEPT !.title = value,
                                                    !.url = model.tempURL,
                                                    !.backupErr = a.backupErr,
                                                    !.err = w.err]
             ELSE /\ model' =
                        CASE key = "ctrl+c" -> model
                          [] key = "esc" ->
                                [model EXCEPT !.viewMode = "ViewList",
                                              !.textInput = <<>>, !.tempURL = <<>>]
                          [] key = "enter" -> model
                          [] OTHER -> [model EXCEPT !.textInput = TextInputUpdate(@, key)]
                  /\ lastOp' = KeyCall(key)
                  /\ UNCHANGED <<procs, held, Tickets, NextID, primary, backups, hist>>
    /\ UNCHANGED <<procs, held, clock>>

\* Model.HandleBackups with a selection that stops at the ends of the list
HandleBackups_NoWrap(keys) ==
    /\ ViewIs("ViewBackups")
    /\ \E key \in keys :
          /\ model' =
                CASE key \in {"ctrl+c", "q", "esc"} ->
                        [model EXCEPT !.viewMode = "ViewList",
                                      !.selectedBackupIndex = -1]
                  [] key \in {"up", "k"} ->
                        [model EXCEPT !.selectedBackupIndex = IF @ > 0 THEN @ - 1 ELSE @]
                  [] key \in {"down", "j"} ->
                        [model EXCEPT !.selectedBackupIndex =
                                         IF @ < Len(model.backups) - 1 THEN @ + 1 ELSE @]
                  [] key = "enter" ->
                        IF /\ Len(model.backups) > 0
                           /\ model.selectedBackupIndex >= 0
                           /\ model.selectedBackupIndex < Len(model.backups)
                        THEN [model EXCEPT !.backupToRestore =
                                              model.backups[model.selectedBackupIndex + 1],
                                           !.viewMode = "ViewConfirmRestore"]
                        ELSE model
                  [] OTHER -> model
          /\ lastOp' = KeyCall(key)
    /\ UNCHANGED <<procs, held, Tickets, NextID, primary, backups, clock, hist>>

\* Model.HandleBackups
HandleBackups(keys) ==
    /\ ViewIs("ViewBackups")
    /\ \E key \in keys :
          /\ model' =
                CASE key \in {"ctrl+c", "q", "esc"} ->
                        [model EXCEPT !.viewMode = "ViewList",
                                      !.selectedBackupIndex = -1]
                  [] key \in {"up", "k"} ->
                        IF Len(model.backups) > 0
                        THEN [model EXCEPT !.selectedBackupIndex =
                                              IF @ > 0 THEN @ - 1
                                              ELSE Len(model.backups) - 1]
                        ELSE model
                  [] key \in {"down", "j"} ->
                        IF Len(model.backups) > 0
                        THEN [model EXCEPT !.selectedBackupIndex =
                                              IF @ < Len(model.backups) - 1 THEN @ + 1
                                              ELSE 0]
                        ELSE model
                  [] key = "enter" ->
                        IF /\ Len(model.backups) > 0
                           /\ model.selectedBackupIndex >= 0
                           /\ model.selectedBackupIndex < Len(model.backups)
                        THEN [model EXCEPT !.backupToRestore =
                                              model.backups[model.selectedBackupIndex + 1],
                                           !.viewMode = "ViewConfirmRestore"]
                        ELSE model
                  [] OTHER -> model
          /\ lastOp' = KeyCall(key)
    /\ UNCHANGED <<procs, held, Tickets, NextID, primary, backups, clock, hist>>

\* Model.HandleConfirmRestore
HandleConfirmRestore(keys, rfaults, lfaults) ==
    /\ ViewIs("ViewConfirmRestore")
    /\ \E key \in keys, rf \in rfaults, lf \in lfaults :
       \E r \in {RestoreFromBackupUsing(primary, DirFiles(backups),
                                        model.backupToRestore, rf)} :
       \E l \in {LoadTicketsWithFS(r.primary, lf)} :
          IF key \in {"y", "Y"}
          THEN /\ primary' = r.primary
               /\ lastOp' = [KeyCall(key) EXCEPT !.err = r.err, !.fault = rf]
               /\ IF r.err # "none"
                  THEN UNCHANGED <<procs, held, Tickets, NextID, hist, model>>
                  ELSE /\ Tickets' = l.Tickets
                       /\ NextID' = l.NextID
                       /\ hist' = NoHist
                       /\ model' = [model EXCEPT !.viewMode = "ViewList",
                                                 !.selectedBackupIndex = -1,
                                                 !.list = RefreshList(l.Tickets)]
          ELSE /\ model' =
                     IF key \in {"ctrl+c", "q", "n", "N", "esc"}
                     THEN [model EXCEPT !.viewMode = "ViewList",
                                        !.selectedBackupIndex = -1]
                     ELSE model
               /\ lastOp' = KeyCall(key)
               /\ UNCHANGED <<procs, held, Tickets, NextID, primary, hist>>
    /\ UNCHANGED <<procs, held, backups, clock>>

\* Model.HandleConfirmDelete; it calls DeleteTicket and, when a ticket was
\* deleted, Save, whose error it drops
HandleConfirmDelete(keys, bfaults, sfaults) ==
    /\ ViewIs("ViewConfirmDelete")
    /\ \E key \in keys, bf \in bfaults, sf \in sfaults :
       \E d \in {DeleteTicket(Tickets, primary, backups, clock,
                              model.ticketToDelete, bf)} :
       \E w \in {SaveFile(d.Tickets, NextID, primary, sf)} :
          IF key \in {"y", "enter"} /\ model.ticketToDelete # -1
          THEN /\ Tickets' = d.Tickets
               /\ backups' = d.backups
               /\ primary' = IF d.ok THEN w.primary ELSE primary
               /\ model' = [model EXCEPT !.viewMode = "ViewList",
                                         !.ticketToDelete = -1,
                                         !.list = IF d.ok THEN RefreshList(d.Tickets)
                                                  ELSE @]
               /\ hist' = Record(hist, FALSE, <<>>)
               /\ lastOp' = [KeyCall(key) EXCEPT !.id = model.ticketToDelete,
                                                 !.ok = d.ok,
                                                 !.backupErr = d.backupErr,
                                                 !.err = IF d.ok THEN w.err ELSE "none"]
          ELSE /\ model' =
                     IF key \in {"esc", "n"}
                     THEN [model EXCEPT !.viewMode = "ViewList",
                                        !.ticketToDelete = -1]
                     ELSE model
               /\ lastOp' = KeyCall(key)
               /\ UNCHANGED <<Tickets, primary, backups, hist>>
    /\ UNCHANGED <<procs, held, NextID, clock>>

\* the files the path given to the import view may name: one file, with
\* URLs and titles that the add dialogue can also be given
\* line 1: [u - u]
\* line 2: [ uu  -  u u ]
\* line 3: [u - uu]
UiFiles ==
    << << <<"u", " ", "-", " ", "u">>,
          <<" ", "u", "u", " ", " ", "-", " ", " ", "u", " ", "u", " ">>,
          <<"u", " ", "-", " ", "u", "u">> >> >>

\* Model.HandleImport; handleImportSubmit calls ImportFromFile on the file
\* the path names (which may not open, or fail to be read to its end) and
\* calls Save when ImportFromFile returned no error and added a ticket
HandleImport(keys, maxId, bfaults, sfaults) ==
    /\ ViewIs("ViewImport")
    /\ \E key \in keys, bf \in bfaults, sf \in sfaults :
       \E filePath \in {TrimSpace(model.textInput)} :
       \E f \in IF key = "enter" /\ filePath # <<>> THEN DOMAIN UiFiles ELSE {1} :
       \E scan \in {ScanLines(ImportStart(Tickets, NextID, primary, backups, clock, bf),
                              UiFiles[f], Len(UiFiles[f]), primary, clock, bf)} :
       \E opens \in IF key = "enter" /\ filePath # <<>> THEN BOOLEAN ELSE {TRUE} :
       \E readTo \in IF key = "enter" /\ filePath # <<>> /\ opens
                     THEN 0..Len(UiFiles[f]) ELSE {0} :
       \E r \in {ImportFromFile(scan, Len(UiFiles[f]), opens, readTo)} :
       \E w \in {SaveFile(r.st.Tickets, r.st.NextID, primary, sf)} :
          /\ key \in TypedChars => Len(model.textInput) < MaxTitle
          /\ IF key = "enter" /\ filePath # <<>>
             THEN /\ r.st.NextID <= maxId + 1
                  /\ Tickets' = r.st.Tickets
                  /\ NextID' = r.st.NextID
                  /\ backups' = r.st.backups
                  /\ primary' = IF r.err = "none" /\ r.st.Added > 0
                                THEN w.primary ELSE primary
                  /\ model' = [model EXCEPT
                                  !.viewMode = "ViewImportResult",
                                  !.textInput = <<>>,
                                  !.list = IF r.err = "none" /\ r.st.Added > 0
                                           THEN RefreshList(r.st.Tickets) ELSE @]
                  /\ hist' = Record(hist, FALSE, NewIds(Tickets, r.st.Tickets))
                  /\ lastOp' = [KeyCall(key) EXCEPT !.file = f,
                                                    !.Added = r.st.Added,
                                                    !.err = r.err,
                                                    !.readTo = readTo]
             ELSE /\ model' =
                        CASE key = "ctrl+c" -> model
                          [] key = "esc" ->
                                [model EXCEPT !.viewMode = "ViewList",
                                              !.textInput = <<>>]
                          [] key = "enter" -> model
                          [] OTHER -> [model EXCEPT !.textInput = TextInputUpdate(@, key)]
                  /\ lastOp' = KeyCall(key)
                  /\ UNCHANGED <<Tickets, NextID, primary, backups, hist>>
    /\ UNCHANGED <<procs, held, clock>>

\* Model.HandleImportResult
HandleImportResult(keys) ==
    /\ ViewIs("ViewImportResult")
    /\ \E key \in keys :
          /\ model' =
                CASE key \in {"enter", " "} ->
                        [model EXCEPT !.viewMode = "ViewList",
                                      !.list = RefreshList(Tickets)]
                  [] key = "esc" -> [model EXCEPT !.viewMode = "ViewList"]
                  [] OTHER -> model
          /\ lastOp' = KeyCall(key)
    /\ UNCHANGED <<procs, held, Tickets, NextID, primary, backups, clock, hist>>

\* The store in memory, on a machine where tickets.json was never written.
\* The calls of one run fall within one second of the clock; the backup
\* attempts of AddTicket, DeleteTicket and ImportFromFile may fail
Next ==
    \/ DoAddTicket(MaxId, HomeFaults)
    \/ DoDeleteTicket(MaxId, HomeFaults)
    \/ DoSearch
    \/ DoImportFromFile(MaxId, DOMAIN ImportFiles, {"none", "UserHomeDir"})

Spec == Init /\ [][Next]_vars

\* The store together with tickets.json and its backups; Save, Load and
\* RestoreFromBackupUsing may meet a failing FileSystem call
InitFS ==
    /\ Tickets = NewTicketStorage.Tickets
    /\ NextID = NewTicketStorage.NextID
    /\ primary \in InitialFiles
    /\ backups = [t \in Times |-> Absent]
    /\ clock \in Times
    /\ lastOp = NoCall
    /\ hist = NoHist
    /\ model = NewModel
    /\ procs = NoProcs
    /\ held = NoHeld

NextFS ==
    \/ DoAddTicket(MaxFsId, {"none"})
    \/ DoDeleteTicket(MaxFsId, {"none"})
    \/ DoImportFromFile(MaxFsId, {3}, {"none"})
    \/ DoSave(SaveFaults \ {"WriteFileTrunc"})
    \/ DoLoad(LoadFaults)
    \/ DoRestoreFromBackup(RestoreFaults \ {"WriteFileTrunc"})

SpecFS == InitFS /\ [][NextFS]_vars

\* Every call of the store, with tickets.json and its backups; each
\* FileSystem call of Save, Load and RestoreFromBackupUsing may fail, a
\* WriteFile also after it truncated the file.  The calls of one run fall
\* within one second of the clock
InitFrame ==
    /\ Tickets = NewTicketStorage.Tickets
    /\ NextID = NewTicketStorage.NextID
    /\ primary \in {Absent, LegacyDoc}
    /\ backups = [t \in Times |-> Absent]
    /\ clock = 0
    /\ lastOp = NoCall
    /\ hist = NoHist
    /\ model = NewModel
    /\ procs = NoProcs
    /\ held = NoHeld

NextFrame ==
    \/ DoAddTicket(MaxFsId, {"none"})
    \/ DoDeleteTicket(MaxFsId, {"none"})
    \/ DoImportFromFile(MaxFsId, {3}, {"none"})
    \/ DoSearch
    \/ DoHasTicketWithURL
    \/ DoSave(SaveFaults)
    \/ DoLoad(LoadFaults)
    \/ DoRestoreFromBackup(RestoreFaults)

SpecFrame == InitFrame /\ [][NextFrame]_vars

\* Two processes on one tickets.json: each loads the file into a store of
\* its own, adds one ticket and saves, a call of one process falling
\* anywhere between the calls of the other; no FileSystem call fails.
\* The URL of the ticket a process adds (no ticket of a file found at the
\* start has it)
ProcUrl(p) == IF p = 1 THEN <<"u", "&", "1">> ELSE <<"u", "&", "2">>

ProcLoad(p) ==
    /\ procs[p].pc = "load"
    /\ \E r \in {LoadTicketsWithFS(primary, "none")} :
          procs' = [procs EXCEPT ![p] =
                       [@ EXCEPT !.pc = "add", !.Tickets = r.Tickets,
                                 !.NextID = r.NextID,
                                 !.loadedLate =
                                     \E q \in Procs \ {p} : procs[q].pc = "done"]]
    /\ lastOp' = [NoCall EXCEPT !.op = "load", !.proc = p]
    /\ UNCHANGED <<Tickets, NextID, primary, backups, clock, hist, model, held>>

ProcAddTicket(p) ==
    /\ procs[p].pc = "add"
    /\ \E title \in {in.title : in \in AddInputs} :
       \E a \in {AddTicket(procs[p].Tickets, procs[p].NextID, primary, backups,
                           clock, title, ProcUrl(p), "none")} :
          /\ procs' = [procs EXCEPT ![p] =
                          [@ EXCEPT !.pc = "save", !.Tickets = a.Tickets,
                                    !.NextID = a.NextID, !.url = ProcUrl(p)]]
          /\ backups' = a.backups
          /\ lastOp' = [NoCall EXCEPT !.op = "add", !.proc = p, !.title = title,
                                      !.url = ProcUrl(p),
                                      !.backupErr = a.backupErr]
    /\ UNCHANGED <<Tickets, NextID, primary, clock, hist, model, held>>

\* Save that reads tickets.json again and writes its tickets together with
\* the ticket the process added
ProcSave_Merges(p) ==
    /\ procs[p].pc = "save"
    /\ \E on \in {LoadTicketsWithFS(primary, "none")} :
       \E r \in {SaveFile(on.Tickets \o <<procs[p].Tickets[Len(procs[p].Tickets)]>>,
                          procs[p].NextID, primary, "none")} :
          /\ primary' = r.primary
          /\ lastOp' = [NoCall EXCEPT !.op = "save", !.proc = p, !.err = r.err]
          /\ procs' = [q \in Procs |->
                          IF q = p
                          THEN [procs[q] EXCEPT !.pc = "done", !.err = r.err,
                                                !.savedLast = TRUE]
                          ELSE [procs[q] EXCEPT !.savedLast = FALSE]]
    /\ UNCHANGED <<Tickets, NextID, backups, clock, hist, model, held>>

ProcSave(p) ==
    /\ procs[p].pc = "save"
    /\ \E r \in {SaveFile(procs[p].Tickets, procs[p].NextID, primary, "none")} :
          /\ primary' = r.primary
          /\ lastOp' = [NoCall EXCEPT !.op = "save", !.proc = p, !.err = r.err]
          /\ procs' = [q \in Procs |->
                          IF q = p
                          THEN [procs[q] EXCEPT !.pc = "done", !.err = r.err,
                                                !.savedLast = TRUE]
                          ELSE [procs[q] EXCEPT !.savedLast = FALSE]]
    /\ UNCHANGED <<Tickets, NextID, backups, clock, hist, model, held>>

InitProcs ==
    /\ Tickets = NewTicketStorage.Tickets
    /\ NextID = NewTicketStorage.NextID
    /\ primary \in InitialFiles
    /\ backups = [t \in Times |-> Absent]
    /\ clock = 0
    /\ lastOp = NoCall
    /\ hist = NoHist
    /\ model = NewModel
    /\ procs = NoProcs
    /\ held = NoHeld

NextProcs ==
    \/ Tick
    \/ \E p \in Procs : ProcLoad(p)
    \/ \E p \in Procs : ProcAddTicket(p)
    \/ \E p \in Procs : ProcSave(p)

SpecProcs == InitProcs /\ [][NextProcs]_vars

\* ts.Tickets as a Go slice: held.array is the array under it, up to its
\* capacity, and Tickets its first Len(Tickets) elements.
\* the array under append(ts.Tickets, ticket): the same array, written at
\* the place after the slice, while the capacity allows; a new array with
\* the elements of the slice otherwise, of capacity 1 after capacity 0 and
\* of twice the capacity after any other, the places not yet written
\* holding the zero value of Ticket
ArrayAfterAppend(array, len, ticket) ==
    IF len < Len(array) THEN [array EXCEPT ![len + 1] = ticket]
    ELSE [k \in 1..(IF Len(array) = 0 THEN 1 ELSE 2 * Len(array)) |->
             IF k <= len THEN array[k]
             ELSE IF k = len + 1 THEN ticket
             ELSE [ID |-> 0, Title |-> <<>>, URL |-> <<>>, CreatedAt |-> 0]]

\* the array under append(ts.Tickets[:i], ts.Tickets[i+1:]...), i counted
\* from 1: the elements after i move down one place in the same array
ArrayAfterDelete(array, len, i) ==
    [k \in 1..Len(array) |-> IF k >= i /\ k < len THEN array[k + 1] ELSE array[k]]

\* the tickets a caller reads in the slice it holds
HeldTickets == IF held.aliased THEN SubSeq(held.array, 1, held.len) ELSE held.items

\* held after the array under ts.Tickets became array: a slice in the
\* former array keeps that array, which nothing writes any more
HeldOn(array) ==
    IF Len(array) # Len(held.array)
    THEN [held EXCEPT !.array = array, !.aliased = FALSE, !.items = HeldTickets]
    ELSE [held EXCEPT !.array = array]

\* Search, the caller keeping the slice returned: ts.Tickets itself for the
\* empty query, a slice with an array of its own otherwise
SliceSearch ==
    /\ \E q \in Queries :
       \E r \in {Search(Tickets, q)} :
          /\ held' = [held EXCEPT !.has = TRUE, !.aliased = (q = <<>>),
                                  !.len = Len(r), !.items = r, !.returned = r]
          /\ lastOp' = [NoCall EXCEPT !.op = "search", !.query = q, !.result = r]
    /\ UNCHANGED <<procs, model, Tickets, NextID, primary, backups, clock, hist>>

SliceAddTicket(maxId) ==
    /\ NextID <= maxId
    /\ \E in \in AddInputs :
       \E a \in {AddTicket(Tickets, NextID, primary, backups, clock, in.title,
                           in.url, "none")} :
          /\ Tickets' = a.Tickets
          /\ NextID' = a.NextID
          /\ backups' = a.backups
          /\ held' = HeldOn(ArrayAfterAppend(held.array, Len(Tickets),
                                             a.Tickets[Len(a.Tickets)]))
          /\ lastOp' = [NoCall EXCEPT !.op = "add", !.title = in.title,
                                      !.url = in.url, !.backupErr = a.backupErr]
    /\ UNCHANGED <<procs, model, primary, clock, hist>>

SliceDeleteTicket(maxId) ==
    /\ \E id \in 0..maxId :
       \E d \in {DeleteTicket(Tickets, primary, backups, clock, id, "none")} :
          /\ Tickets' = d.Tickets
          /\ backups' = d.backups
          /\ held' = IF d.ok
                     THEN HeldOn(ArrayAfterDelete(
                                     held.array, Len(Tickets),
                                     CHOOSE i \in 1..Len(Tickets) :
                                        /\ Tickets[i].ID = id
                                        /\ \A j \in 1..(i - 1) : Tickets[j].ID # id))
                     ELSE held
          /\ lastOp' = [NoCall EXCEPT !.op = "delete", !.id = id, !.ok = d.ok,
                                      !.backupErr = d.backupErr]
    /\ UNCHANGED <<procs, model, NextID, primary, clock, hist>>

NextSlices ==
    \/ SliceSearch
    \/ SliceAddTicket(MaxId)
    \/ SliceDeleteTicket(MaxId)

SpecSlices == Init /\ [][NextSlices]_vars

\* The store, tickets.json and its backups with the rollback watched, on a
\* machine where tickets.json was never written or holds a legacy document.
\* The calls of one run fall within one second of the clock; a backup
\* attempt of AddTicket, a Save and a RestoreFromBackup may fail
InitRollback ==
    /\ Tickets = NewTicketStorage.Tickets
    /\ NextID = NewTicketStorage.NextID
    /\ primary \in {Absent, LegacyDoc}
    /\ backups = [t \in Times |-> Absent]
    /\ clock \in Times
    /\ lastOp = NoCall
    /\ hist = NoHist
    /\ model = NewModel
    /\ procs = NoProcs
    /\ held = NoHeld

NextRollback ==
    \/ WatchedAddTicket(MaxFsId, {"none", "WriteFile"})
    \/ WatchedDeleteTicket(MaxFsId, {"none"})
    \/ WatchedSave({"none", "WriteFile"})
    \/ WatchedLoad({"none"})
    \/ WatchedRestoreFromBackup({"none", "ReadFile"})

SpecRollback == InitRollback /\ [][NextRollback]_vars

\* The backups: the store and the backup files of a tickets.json that is
\* not rewritten, while the clock advances and any FileSystem call of a
\* backup may fail
InitBk ==
    /\ Tickets = NewTicketStorage.Tickets
    /\ NextID = NewTicketStorage.NextID
    /\ primary \in InitialFiles
    /\ backups = [t \in Times |-> Absent]
    /\ clock = 0
    /\ lastOp = NoCall
    /\ hist = NoHist
    /\ model = NewModel
    /\ procs = NoProcs
    /\ held = NoHeld

NextBk ==
    \/ Tick
    \/ DoAddTicket(MaxFsId, BackupFaults)
    \/ DoDeleteTicket(MaxFsId, BackupFaults)
    \/ DoImportFromFile(MaxFsId, {3}, {"none", "UserHomeDir", "WriteFile"})
    \/ DoCreateBackup(BackupFaults)
    \/ DoListBackups({"none", "UserHomeDir", "ReadDir"})

SpecBk == InitBk /\ [][NextBk]_vars

\* The store as any caller of the package may drive it, on a machine whose
\* tickets.json may come from an earlier version or an earlier run
InitApi ==
    /\ Tickets = NewTicketStorage.Tickets
    /\ NextID = NewTicketStorage.NextID
    /\ primary \in InitialFiles \cup {ZeroDoc, SavedDoc}
    /\ backups = [t \in Times |-> Absent]
    /\ clock \in Times
    /\ lastOp = NoCall
    /\ hist = NoHist
    /\ model = NewModel
    /\ procs = NoProcs
    /\ held = NoHeld

NextApi ==
    \/ DoAddTicketOf(AddInputs \cup { [title |-> <<"A", "b">>, url |-> <<>>],
                                     [title |-> <<>>, url |-> <<"u", "1">>] },
                     MaxFsId, {"none"})
    \/ DoDeleteTicket(MaxFsId, {"none"})
    \/ DoImportFromFile(MaxFsId, {3}, {"none"})
    \/ DoLoad(LoadFaults)
    \/ DoHasTicketWithURL

SpecApi == InitApi /\ [][NextApi]_vars

\* A ticket as the list view shows it: a store holding one ticket, of any
\* URL, whose number is asked for
InitUrl ==
    /\ \E id \in {1, MaxId}, url \in Urls :
          /\ Tickets = <<[ID |-> id, Title |-> <<"A", "b">>, URL |-> url,
                          CreatedAt |-> 0]>>
          /\ NextID = id + 1
    /\ primary = Absent
    /\ backups = [t \in Times |-> Absent]
    /\ clock = 0
    /\ lastOp = NoCall
    /\ hist = NoHist
    /\ model = NewModel
    /\ procs = NoProcs
    /\ held = NoHeld

DoExtractTicketNumber ==
    /\ \E i \in 1..Len(Tickets) :
          lastOp' = [NoCall EXCEPT !.op = "extract", !.id = Tickets[i].ID,
                                   !.url = Tickets[i].URL,
                                   !.result = ExtractTicketNumber(Tickets[i])]
    /\ hist' = Record(hist, FALSE, <<>>)
    /\ UNCHANGED <<procs, held, model, Tickets, NextID, primary, backups, clock>>

NextUrl == DoExtractTicketNumber

SpecUrl == InitUrl /\ [][NextUrl]_vars

\* The program as its user drives it, key by key, on a machine where
\* tickets.json was never written; the clock may move between two keys
UiKeys == {"a", "b", "enter", "esc", "y", "n", "up", "down", "u", " "}

InitUi ==
    /\ Tickets = LoadTicketsWithFS(Absent, "none").Tickets
    /\ NextID = LoadTicketsWithFS(Absent, "none").NextID
    /\ primary = Absent
    /\ backups = [t \in Times |-> Absent]
    /\ clock = 0
    /\ lastOp = NoCall
    /\ hist = NoHist
    /\ model = NewModel
    /\ procs = NoProcs
    /\ held = NoHeld

NextUi ==
    \/ Tick
    \/ HandleListView(UiKeys, {"none", "ReadDir"})
    \/ HandleAddURL(UiKeys)
    \/ HandleAddTitle(UiKeys, MaxFsId, {"none"}, {"none"})
    \/ HandleBackups(UiKeys)
    \/ HandleConfirmRestore(UiKeys, {"none", "ReadFile"}, {"none"})

SpecUi == InitUi /\ [][NextUi]_vars

\* Changing the store in the terminal UI: the add dialogue, the delete
\* confirmation and the import view, within one second of the clock; no
\* FileSystem call of a backup or of Save fails
EditKeys == {"a", "d", "i", "r", "enter", "esc", "u", " "}

NextEdit ==
    \/ HandleListView(EditKeys, {"none"})
    \/ HandleAddURL(EditKeys)
    \/ HandleAddTitle(EditKeys, MaxFsId, {"none"}, {"none"})
    \/ HandleConfirmDelete(EditKeys, {"none"}, {"none"})
    \/ HandleImport(EditKeys, MaxFsId, {"none"}, {"none"})
    \/ HandleImportResult(EditKeys)

SpecEdit == InitUi /\ [][NextEdit]_vars

\* The same with the backups view and the restore of a backup
SyncKeys == EditKeys \cup {"b", "y"}

NextSync ==
    \/ HandleListView(SyncKeys, {"none"})
    \/ HandleAddURL(SyncKeys)
    \/ HandleAddTitle(SyncKeys, MaxFsId, {"none"}, {"none"})
    \/ HandleConfirmDelete(SyncKeys, {"none"}, {"none"})
    \/ HandleImport(SyncKeys, MaxFsId, {"none"}, {"none"})
    \/ HandleImportResult(SyncKeys)
    \/ HandleBackups(SyncKeys)
    \/ HandleConfirmRestore(SyncKeys, {"none"}, {"none"})

SpecSync == InitUi /\ [][NextSync]_vars

\* The backups view and the restore confirmation, on a machine whose
\* .gotickets directory holds backups of earlier runs
InitView ==
    /\ Tickets = LoadTicketsWithFS(Absent, "none").Tickets
    /\ NextID = LoadTicketsWithFS(Absent, "none").NextID
    /\ primary = Absent
    /\ backups \in [Times -> {Absent, LegacyDoc}]
    /\ clock = 0
    /\ lastOp = NoCall
    /\ hist = NoHist
    /\ model = NewModel
    /\ procs = NoProcs
    /\ held = NoHeld

NextView ==
    \/ HandleListView(UiKeys, {"none", "ReadDir"})
    \/ HandleBackups(UiKeys)
    \/ HandleConfirmRestore(UiKeys, {"none", "ReadFile"}, {"none"})

SpecView == InitView /\ [][NextView]_vars

\* Adding tickets in the terminal UI: the list view and the two views of
\* the add dialogue, within one second of the clock
NextAdd ==
    \/ HandleListView(UiKeys \ {"b"}, {"none"})
    \/ HandleAddURL(UiKeys)
    \/ HandleAddTitle(UiKeys, MaxFsId, {"none"}, {"none"})

SpecAdd == InitUi /\ [][NextAdd]_vars

----------------------------------------------------------------------------
(* Properties of the store in memory, checked under Spec *)

\* C1: on a store made by NewTicketStorage on which only AddTicket was
\* called, N times, NextID is N + 1, the store holds N tickets, and the i-th
\* ticket created has id i and sits at position i.
AddsNumberFromOne ==
    hist.onlyAdds =>
        /\ NextID = Len(hist.assigned) + 1
        /\ Len(Tickets) = Len(hist.assigned)
        /\ \A i \in 1..Len(hist.assigned) :
              hist.assigned[i] = i /\ Tickets[i].ID = i

\* a store after two or more AddTicket calls and nothing else
AddsNumberFromOne_Witness ==
    /\ hist.onlyAdds
    /\ lastOp.op = "add"
    /\ Len(hist.assigned) >= 2
    /\ Len(Tickets) = Len(hist.assigned)

\* C2: on a store that started empty and saw only AddTicket, DeleteTicket
\* and ImportFromFile, no two tickets share an id, and the ids handed out
\* are strictly increasing in the order they were handed out, whether or
\* not their tickets are still in the store.
IdsUniqueAndIncreasing ==
    hist.fresh =>
        /\ \A i, j \in 1..Len(Tickets) : i # j => Tickets[i].ID # Tickets[j].ID
        /\ \A i, j \in 1..Len(hist.assigned) :
              i < j => hist.assigned[i] < hist.assigned[j]

\* an id was handed out, its ticket deleted, and a later call (an import)
\* handed out a greater id whose ticket is in the store
IdsUniqueAndIncreasing_Witness ==
    /\ hist.fresh
    /\ lastOp.op = "import"
    /\ lastOp.Added >= 1
    /\ \E k \in 1..Len(hist.assigned) :
          /\ \A i \in 1..Len(Tickets) : Tickets[i].ID # hist.assigned[k]
          /\ \E i \in 1..Len(Tickets) : Tickets[i].ID > hist.assigned[k]

\* C3: DeleteTicket(id) with a ticket of that id in the store returns true
\* and removes exactly one ticket, one with that id; with no such ticket it
\* returns false and leaves the tickets unchanged; right after a
\* DeleteTicket(id) that returned true, DeleteTicket(id) returns false.
DeleteRemovesTheTicket ==
    [][lastOp'.op = "delete" =>
        LET id == lastOp'.id
            hits == {i \in 1..Len(Tickets) : Tickets[i].ID = id}
        IN  /\ hits # {} =>
                 /\ lastOp'.ok
                 /\ \E i \in hits :
                       Tickets' = SubSeq(Tickets, 1, i - 1)
                                    \o SubSeq(Tickets, i + 1, Len(Tickets))
            /\ hits = {} => (~lastOp'.ok /\ Tickets' = Tickets)
            /\ (lastOp.op = "delete" /\ lastOp.id = id /\ lastOp.ok)
                 => ~lastOp'.ok]_vars

\* C4: Search("") returns the tickets of the store in store order; Search
\* of a non-empty query returns, in store order, exactly the tickets whose
\* Title or URL has the query as a substring when letter case is ignored
\* (none when no ticket matches).
SearchReturnsMatches ==
    lastOp.op = "search" =>
        LET q == lastOp.query
            Same(a, b) == ToLowerChar(a) = ToLowerChar(b)
            Has(s) == \E at \in 0..(Len(s) - Len(q)) :
                         \A k \in 1..Len(q) : Same(s[at + k], q[k])
            Match(t) == Has(t.Title) \/ Has(t.URL)
        IN  lastOp.result = IF q = <<>> THEN Tickets ELSE SelectSeq(Tickets, Match)

\* a search with an upper-case query that finds some tickets and not others
SearchReturnsMatches_Witness ==
    /\ lastOp.op = "search"
    /\ lastOp.query = <<"B">>
    /\ Len(lastOp.result) >= 1
    /\ Len(lastOp.result) < Len(Tickets)

\* C7: an ImportFromFile that reads its file to the end returns counts with
\* Added + Duplicates + Errors = the number of lines that are not blank,
\* len(ErrorLines) = Errors; the store keeps its tickets and gains Added
\* tickets after them, taken from lines of the file in file order; NextID
\* grows by Added.  The file of TestTicketStorage_ImportFromFile on an empty
\* store gives 3 added, 1 duplicate, 3 errors and the three expected tickets.
ImportCounts ==
    [][(lastOp'.op = "import" /\ lastOp'.err = "none") =>
        LET r == lastOp'
            lines == ImportFiles[r.file]
            nonBlank == {n \in 1..Len(lines) :
                            \E k \in 1..Len(lines[n]) : ~IsSpace(lines[n][k])}
            old == Len(Tickets)
            \* line n begins with the URL and ends with the Title of ticket t
            From(t, n) ==
                LET l == TrimSpace(lines[n])
                IN  /\ Len(t.URL) + Len(t.Title) <= Len(l)
                    /\ SubSeq(l, 1, Len(t.URL)) = t.URL
                    /\ SubSeq(l, Len(l) - Len(t.Title) + 1, Len(l)) = t.Title
        IN  /\ r.Added + r.Duplicates + r.Errors = Cardinality(nonBlank)
            /\ Len(r.ErrorLines) = r.Errors
            /\ Len(Tickets') = old + r.Added
            /\ SubSeq(Tickets', 1, old) = Tickets
            /\ NextID' = NextID + r.Added
            /\ \A i \in 1..r.Added : \E n \in nonBlank : From(Tickets'[old + i], n)
            /\ \A i, j \in 1..r.Added :
                  i < j => \E n, m \in nonBlank :
                              /\ n < m
                              /\ From(Tickets'[old + i], n)
                              /\ From(Tickets'[old + j], m)
            /\ (r.file = 1 /\ Tickets = <<>>) =>
                  /\ r.Added = 3 /\ r.Duplicates = 1 /\ r.Errors = 3
                  /\ Len(Tickets') = Len(expectedTickets)
                  /\ \A i \in 1..Len(expectedTickets) :
                        /\ Tickets'[i].Title = expectedTickets[i].title
                        /\ Tickets'[i].URL = expectedTickets[i].url]_vars

\* the test's file was imported into an empty store
ImportCounts_Witness ==
    /\ lastOp.op = "import"
    /\ lastOp.err = "none"
    /\ lastOp.file = 1
    /\ lastOp.Added = 3
    /\ Len(Tickets) = 3

\* C8: in an ImportFromFile that reads its file to the end, the well-formed
\* lines whose trimmed URL is, character for character, the URL of a ticket
\* of the store or of an earlier well-formed line of the file are the
\* duplicates: each is counted in Duplicates and adds no ticket, and every
\* other well-formed line adds one ticket with its URL.  In any
\* ImportFromFile, if the URLs of the store were pairwise distinct before,
\* they are pairwise distinct after.
ImportSkipsDuplicateURLs ==
    [][lastOp'.op = "import" =>
        LET r == lastOp'
            lines == ImportFiles[r.file]
            old == Len(Tickets)
            Url(n) == ParsedLines[r.file][n].url
            wellFormed == {n \in 1..Len(lines) : ParsedLines[r.file][n].wellFormed}
            dups == {n \in wellFormed :
                        \/ \E i \in 1..old : Tickets[i].URL = Url(n)
                        \/ \E m \in wellFormed : m < n /\ Url(m) = Url(n)}
            Distinct(ts) == \A i, j \in 1..Len(ts) : i # j => ts[i].URL # ts[j].URL
        IN  /\ r.err = "none" =>
                 /\ r.Duplicates = Cardinality(dups)
                 /\ r.Added = Cardinality(wellFormed \ dups)
                 /\ Len(Tickets') = old + r.Added
                 /\ {Tickets'[i].URL : i \in (old + 1)..Len(Tickets')}
                       = {Url(n) : n \in wellFormed \ dups}
            /\ SubSeq(Tickets', 1, old) = Tickets
            /\ \A i \in (old + 1)..Len(Tickets') :
                  \A j \in 1..Len(Tickets') : i # j => Tickets'[i].URL # Tickets'[j].URL
            /\ Distinct(Tickets) => Distinct(Tickets')]_vars

\* an import that found a URL of the store in its file and added a URL that
\* differs from it in letter case only
ImportSkipsDuplicateURLs_Witness ==
    /\ lastOp.op = "import"
    /\ lastOp.err = "none"
    /\ lastOp.file = 2
    /\ lastOp.Duplicates = 1
    /\ lastOp.Added = 2
    /\ \E i, j \in 1..Len(Tickets) :
          Tickets[i].URL = <<"u", "1">> /\ Tickets[j].URL = <<"U", "1">>

\* C9: an ImportFromFile whose file cannot be opened returns an error and a
\* result with Added, Duplicates and Errors all 0 and no error line, and
\* leaves Tickets and NextID as they were.
ImportOpenFailure ==
    [][(lastOp'.op = "import" /\ lastOp'.err = "open") =>
        /\ lastOp'.Added = 0
        /\ lastOp'.Duplicates = 0
        /\ lastOp'.Errors = 0
        /\ lastOp'.ErrorLines = <<>>
        /\ Tickets' = Tickets
        /\ NextID' = NextID]_vars

\* a failed open on a store that holds tickets
ImportOpenFailure_Witness ==
    /\ lastOp.op = "import"
    /\ lastOp.err = "open"
    /\ Len(Tickets) >= 2

----------------------------------------------------------------------------
(* Properties of the store with its files, checked under SpecFS *)

\* C5: a Save that returns no error followed at once by a load whose
\* FileSystem calls succeed gives a store with the same tickets (ID, Title,
\* URL, CreatedAt, order) and the same NextID.
SaveLoadRoundTrip ==
    [][(/\ lastOp.op = "save" /\ lastOp.err = "none"
        /\ lastOp'.op = "load" /\ lastOp'.fault = "none")
        => (Tickets' = Tickets /\ NextID' = NextID)]_vars

\* a load that read back a saved store of two tickets, one with characters
\* that JSON escapes
SaveLoadRoundTrip_Witness ==
    /\ lastOp.op = "load"
    /\ lastOp.fault = "none"
    /\ Len(Tickets) = 2
    /\ primary = MarshalIndent(Tickets, NextID)
    /\ \E i \in 1..Len(Tickets) :
          Tickets[i].URL = <<"U", "&", "2">> /\ Tickets[i].Title = <<"b", "\"">>

\* C6: a load for which UserHomeDir or ReadFile fails, or whose file is
\* missing or does not hold JSON, gives a store with no tickets and
\* NextID = 1 (the Go functions return a nil error on every path).
LoadNeverFails ==
    (lastOp.op = "load" /\ (lastOp.fault # "none" \/ primary.kind # "object"))
        => (Tickets = <<>> /\ NextID = 1)

\* a load of a tickets.json that is not JSON, made after tickets were added
LoadNeverFails_Witness ==
    /\ lastOp.op = "load"
    /\ lastOp.fault = "none"
    /\ primary = Garbage
    /\ \E t \in Times : backups[t] # Absent

\* C10: RestoreFromBackupUsing of a backup that does not exist, or whose
\* content is not JSON, returns an error and leaves tickets.json as it was.
RestoreRejectsBadBackup ==
    [][(lastOp'.op = "restore" /\ backups[lastOp'.name].kind # "object") =>
        (lastOp'.err # "none" /\ primary' = primary)]_vars

\* a restore refused a corrupted backup while tickets.json held a saved store
RestoreRejectsBadBackup_Witness ==
    /\ lastOp.op = "restore"
    /\ lastOp.err = "backup file is corrupted"
    /\ primary.kind = "object"
    /\ backups[lastOp.name] = Garbage

MutationsBackUpFirst ==
    [][(/\ lastOp'.op \in {"add", "delete", "import"}
        /\ lastOp'.backupErr = "none"
        /\ primary # Absent)
        => (backups'[clock] = primary /\ primary' = primary)]_vars

\* a DeleteTicket that found no ticket still backed up tickets.json
MutationsBackUpFirst_Witness ==
    /\ lastOp.op = "delete"
    /\ ~lastOp.ok
    /\ Tickets # <<>>
    /\ primary.kind = "object"
    /\ backups[clock] = primary

\* C13: whichever FileSystem call of the implicit backup fails, AddTicket,
\* DeleteTicket and ImportFromFile leave Tickets and NextID, and return,
\* exactly what they leave and return when the backup succeeds; the error
\* of the backup is not among the values returned.
BackupFailureDoesNotBlock ==
    [][/\ lastOp'.op = "add" =>
             /\ Tickets' = Append(Tickets, [ID |-> NextID, Title |-> lastOp'.title,
                                            URL |-> lastOp'.url, CreatedAt |-> clock])
             /\ NextID' = NextID + 1
             /\ lastOp'.err = "none"
       /\ lastOp'.op = "delete" =>
             LET d == DeleteTicket(Tickets, primary, backups, clock, lastOp'.id, "none")
             IN  /\ Tickets' = d.Tickets
                 /\ NextID' = NextID
                 /\ lastOp'.ok = d.ok
                 /\ lastOp'.err = "none"
       /\ lastOp'.op = "import" =>
             LET lines == ImportFiles[lastOp'.file]
             IN  \A scan \in {ScanLines(ImportStart(Tickets, NextID, primary,
                                                    backups, clock, "none"),
                                        lines, Len(lines), primary, clock, "none")} :
                 \E opens \in BOOLEAN, readTo \in 0..Len(lines) :
                 \E r \in {ImportFromFile(scan, Len(lines), opens, readTo)} :
                        /\ lastOp'.err = r.err
                        /\ Tickets' = r.st.Tickets
                        /\ NextID' = r.st.NextID
                        /\ lastOp'.Added = r.st.Added
                        /\ lastOp'.Duplicates = r.st.Duplicates
                        /\ lastOp'.Errors = r.st.Errors
                        /\ lastOp'.ErrorLines = r.st.ErrorLines]_vars

\* an AddTicket added its ticket although the backup of an existing
\* tickets.json failed
BackupFailureDoesNotBlock_Witness ==
    /\ lastOp.op = "add"
    /\ lastOp.backupErr \in {"failed to read tickets file for backup",
                             "failed to create backup"}
    /\ primary # Absent
    /\ Len(Tickets) >= 2
    /\ Tickets[Len(Tickets)].URL = lastOp.url

\* C14: CreateBackupUsing, when Stat reports that tickets.json does not
\* exist, returns nil and changes no file; when tickets.json exists and
\* ReadFile fails, it returns the error "failed to read tickets file for
\* backup" and writes no backup file.
BackupOfMissingOrUnreadable ==
    [][lastOp'.op = "backup" =>
        /\ (primary = Absent /\ lastOp'.fault \notin {"UserHomeDir", "Stat"})
              => (lastOp'.err = "none" /\ backups' = backups /\ primary' = primary)
        /\ (primary # Absent /\ lastOp'.fault = "ReadFile")
              => /\ lastOp'.err = "failed to read tickets file for backup"
                 /\ backups' = backups
                 /\ primary' = primary]_vars

\* a backup of an existing tickets.json failed at the read, with no backup
\* file in the directory
BackupOfMissingOrUnreadable_Witness ==
    /\ lastOp.op = "backup"
    /\ lastOp.fault = "ReadFile"
    /\ lastOp.err = "failed to read tickets file for backup"
    /\ primary # Absent
    /\ Tickets # <<>>
    /\ \A t \in Times : backups[t] = Absent

\* C15: ListBackupsUsing returns exactly the names of the entries of
\* .gotickets that are not directories and whose name is tickets_backup_,
\* then anything, then .json; tickets.json is never among them; when
\* UserHomeDir or ReadDir fails it returns an error and no name.
ListReturnsBackupNames ==
    lastOp.op = "list" =>
        LET IsBackupName(n) ==
                /\ Len(n) >= Len(BackupPrefix) + Len(BackupSuffix)
                /\ n = BackupPrefix
                        \o SubSeq(n, Len(BackupPrefix) + 1, Len(n) - Len(BackupSuffix))
                        \o BackupSuffix
            dir == ReadDir(primary, backups)
        IN  IF lastOp.fault = "none"
            THEN /\ lastOp.err = "none"
                 /\ \A e \in dir :
                       (e.name \in lastOp.names) <=> (~e.isDir /\ IsBackupName(e.name))
                 /\ \A n \in lastOp.names : \E e \in dir : e.name = n
                 /\ TicketsFile \notin lastOp.names
                 /\ \A t \in Times :
                       (backups[t] # Absent) <=> (BackupName(t) \in lastOp.names)
            ELSE lastOp.err # "none" /\ lastOp.names = {}

\* a listing of a directory that holds tickets.json and two backups
ListReturnsBackupNames_Witness ==
    /\ lastOp.op = "list"
    /\ lastOp.fault = "none"
    /\ primary # Absent
    /\ BackupName(0) \in lastOp.names
    /\ BackupName(1) \in lastOp.names
    /\ Cardinality(lastOp.names) = 3

\* C16: in every state the store reaches through AddTicket, DeleteTicket,
\* ImportFromFile and load, HasTicketWithURL("") returns false.
EmptyURLNeverMatches ==
    (lastOp.op = "has" /\ lastOp.url = <<>>) => ~lastOp.ok

\* C17: a load of a document whose next_id is 0 or missing gives NextID = 1
\* and the tickets of the document in order; a load of a document whose
\* next_id is 1 or more gives that next_id (and the tickets in order).
LoadCoercesNextID ==
    (lastOp.op = "load" /\ lastOp.fault = "none" /\ primary.kind = "object") =>
        /\ Len(Tickets) = Len(primary.tickets)
        /\ \A i \in 1..Len(Tickets) : MarshalTicket(Tickets[i]) = primary.tickets[i]
        /\ ("next_id" \notin DOMAIN primary) => NextID = 1
        /\ ("next_id" \in DOMAIN primary) =>
              NextID = IF primary.next_id = 0 THEN 1 ELSE primary.next_id

\* a load of a document with two tickets and next_id 0
LoadCoercesNextID_Witness ==
    /\ lastOp.op = "load"
    /\ lastOp.fault = "none"
    /\ primary = ZeroDoc
    /\ Len(Tickets) = 2
    /\ Tickets[1].ID = 2
    /\ NextID = 1

\* C18: in an ImportFromFile that reads its file to the end, every line
\* that contains the separator and whose text before it, or after it, is
\* empty after trimming gets the message "empty URL or title" for its line
\* number and no "invalid format" message, and no ticket with an empty URL
\* or Title is added.
EmptyPartMessage ==
    [][(lastOp'.op = "import" /\ lastOp'.err = "none") =>
        LET lines == ImportFiles[lastOp'.file]
            messages == {lastOp'.ErrorLines[k] : k \in 1..Len(lastOp'.ErrorLines)}
            EmptyPart(n) ==
                LET parts == SplitN2(lines[n], Separator)
                IN  /\ Len(parts) = 2
                    /\ (TrimSpace(parts[1]) = <<>> \/ TrimSpace(parts[2]) = <<>>)
        IN  /\ \A n \in 1..Len(lines) :
                  EmptyPart(n) =>
                     /\ [line |-> n, msg |-> "empty URL or title"] \in messages
                     /\ [line |-> n, msg |-> "invalid format"] \notin messages
            /\ \A i \in (Len(Tickets) + 1)..Len(Tickets') :
                  Tickets'[i].URL # <<>> /\ Tickets'[i].Title # <<>>]_vars

\* C19 as stated: in an ImportFromFile that reads its file to the end, a
\* line in which the separator occurs more than once gets the message
\* "invalid format" and adds no ticket.
SecondSeparatorRejected ==
    [][(lastOp'.op = "import" /\ lastOp'.err = "none") =>
        LET lines == ImportFiles[lastOp'.file]
            messages == {lastOp'.ErrorLines[k] : k \in 1..Len(lastOp'.ErrorLines)}
            Line(n) == TrimSpace(lines[n])
            First(n) == Index(Line(n), Separator)
            Twice(n) ==
                /\ First(n) # 0
                /\ \E j \in (First(n) + Len(Separator))..(Len(Line(n)) - Len(Separator) + 1) :
                      SubSeq(Line(n), j, j + Len(Separator) - 1) = Separator
        IN  \A n \in 1..Len(lines) :
               Twice(n) =>
                  /\ [line |-> n, msg |-> "invalid format"] \in messages
                  /\ \A i \in (Len(Tickets) + 1)..Len(Tickets') :
                        Tickets'[i].URL # TrimSpace(SubSeq(Line(n), 1, First(n) - 1))]_vars

\* C19, amended: in an ImportFromFile that reads its file to the end, a
\* non-blank line gets the message "invalid format" exactly when its
\* trimmed text does not contain the separator; a line that contains it,
\* once or more, is split at the first occurrence only: the store then
\* holds a ticket with the trimmed text before it as URL, and a ticket the
\* import added for that URL has the whole trimmed text after the first
\* occurrence as Title.
SplitAtFirstSeparator ==
    [][(lastOp'.op = "import" /\ lastOp'.err = "none") =>
        LET lines == ImportFiles[lastOp'.file]
            messages == {lastOp'.ErrorLines[k] : k \in 1..Len(lastOp'.ErrorLines)}
            Has(n) == FirstSplit[lastOp'.file][n].has
            Url(n) == FirstSplit[lastOp'.file][n].url
            Title(n) == FirstSplit[lastOp'.file][n].title
            Line(n) == FirstSplit[lastOp'.file][n].text
            new == (Len(Tickets) + 1)..Len(Tickets')
        IN  /\ \A n \in 1..Len(lines) :
                  /\ ([line |-> n, msg |-> "invalid format"] \in messages)
                        <=> (Line(n) # <<>> /\ ~Has(n))
                  /\ Has(n) =>
                        /\ \E i \in 1..Len(Tickets') : Tickets'[i].URL = Url(n)
                        /\ \A i \in new :
                              Tickets'[i].URL = Url(n) =>
                                 \E m \in 1..n : /\ Has(m)
                                                 /\ Url(m) = Url(n)
                                                 /\ Tickets'[i].Title = Title(m)
            /\ \A i \in new :
                  \E n \in 1..Len(lines) :
                     Has(n) /\ Tickets'[i].URL = Url(n) /\ Tickets'[i].Title = Title(n)]_vars

\* an import added a ticket whose title holds the second separator of its line
SplitAtFirstSeparator_Witness ==
    /\ lastOp.op = "import"
    /\ lastOp.err = "none"
    /\ lastOp.file = 2
    /\ \E i \in 1..Len(Tickets) :
          /\ Tickets[i].URL = <<"U", "1">>
          /\ Tickets[i].Title = <<"x", " ", "-", " ", "y">>
    /\ lastOp.ErrorLines = << [line |-> 5, msg |-> "invalid format"] >>

\* C20: in an ImportFromFile that reads its file to the end, a blank line
\* changes no counter and gets no message; every malformed line (not blank,
\* and without a URL and a title around a separator) gets exactly one
\* message, which carries its position in the file counted from 1 with the
\* blank lines included; the messages are in file order; the lines after a
\* malformed line are processed like the others.
MessagesNumberTheLines ==
    [][(lastOp'.op = "import" /\ lastOp'.err = "none") =>
        LET r == lastOp'
            lines == ImportFiles[r.file]
            nonBlank == {n \in 1..Len(lines) :
                            \E k \in 1..Len(lines[n]) : ~IsSpace(lines[n][k])}
            malformed == {n \in nonBlank : ~ParsedLines[r.file][n].wellFormed}
        IN  /\ Len(r.ErrorLines) = Cardinality(malformed)
            /\ \A k \in 1..Len(r.ErrorLines) : r.ErrorLines[k].line \in malformed
            /\ \A k, l \in 1..Len(r.ErrorLines) :
                  k < l => r.ErrorLines[k].line < r.ErrorLines[l].line
            /\ r.Errors = Cardinality(malformed)
            /\ r.Added + r.Duplicates = Cardinality(nonBlank \ malformed)
            /\ \A n \in nonBlank \ malformed :
                  \E i \in 1..Len(Tickets') :
                     Tickets'[i].URL = ParsedLines[r.file][n].url]_vars

\* an import met a blank line, then a malformed line, numbered 2, then
\* added the ticket of the line after it
MessagesNumberTheLines_Witness ==
    /\ lastOp.op = "import"
    /\ lastOp.err = "none"
    /\ lastOp.file = 4
    /\ lastOp.ErrorLines = << [line |-> 2, msg |-> "invalid format"] >>
    /\ lastOp.Added = 1
    /\ lastOp.Errors = 1
    /\ Tickets # <<>>
    /\ Tickets[Len(Tickets)].URL = <<"u", "1">>

----------------------------------------------------------------------------
\* C21: when the stream of the import file fails after some of its lines
\* were read, ImportFromFile returns the read error with the counts of the
\* lines read, and the tickets of those lines stay in the store, in the
\* order of the lines, with nextId advanced by their number.
ImportReadFailureKeepsWork ==
    [][(lastOp'.op = "import" /\ lastOp'.err = "read") =>
        LET parsed == ParsedLines[lastOp'.file]
            read == 1..lastOp'.readTo
            Known(n) == \/ \E i \in 1..Len(Tickets) : Tickets[i].URL = parsed[n].url
                        \/ \E m \in 1..(n - 1) : /\ parsed[m].wellFormed
                                                 /\ parsed[m].url = parsed[n].url
            added == {n \in read : parsed[n].wellFormed /\ ~Known(n)}
            dups == {n \in read : parsed[n].wellFormed /\ Known(n)}
            bad == {n \in read : /\ ~parsed[n].wellFormed
                                 /\ TrimSpace(ImportFiles[lastOp'.file][n]) # <<>>}
        IN  /\ lastOp'.readTo < Len(ImportFiles[lastOp'.file])
            /\ lastOp'.Added = Cardinality(added)
            /\ lastOp'.Duplicates = Cardinality(dups)
            /\ lastOp'.Errors = Cardinality(bad)
            /\ Len(lastOp'.ErrorLines) = Cardinality(bad)
            /\ Len(Tickets') = Len(Tickets) + Cardinality(added)
            /\ SubSeq(Tickets', 1, Len(Tickets)) = Tickets
            /\ NextID' = NextID + Cardinality(added)
            /\ \A i \in (Len(Tickets) + 1)..Len(Tickets') :
                  /\ Tickets'[i].ID = NextID + (i - Len(Tickets)) - 1
                  /\ \E n \in added :
                        /\ Tickets'[i].URL = parsed[n].url
                        /\ Cardinality({m \in added : m <= n}) = i - Len(Tickets)]_vars

\* an import whose stream failed after a line that added a ticket and before
\* a line that would have added another
ImportReadFailureKeepsWork_Witness ==
    /\ lastOp.op = "import"
    /\ lastOp.err = "read"
    /\ lastOp.Added >= 1
    /\ lastOp.readTo >= 1
    /\ \E n \in (lastOp.readTo + 1)..Len(ImportFiles[lastOp.file]) :
          /\ ParsedLines[lastOp.file][n].wellFormed
          /\ ~HasTicketWithURL(Tickets, ParsedLines[lastOp.file][n].url)
----------------------------------------------------------------------------
(* Properties of Ticket.ExtractTicketNumber, checked under SpecUrl *)

\* C22: the strategies are tried in order and the first match wins.  The
\* number of a URL that holds a project key (upper-case letters, a hyphen,
\* digits) is the digits of its first key, whatever the path ends in; the
\* number of any other URL that ends in a path segment of digits, with at
\* most one of "/", "?", "#" after it, is that segment; the number of a
\* URL that no strategy matches is the ticket's id padded with zeros to six
\* digits.
FirstMatchWins ==
    lastOp.op = "extract" =>
        LET u == lastOp.url
            keys == {h \in 2..(Len(u) - 1) :
                        /\ u[h] = "-"
                        /\ IsUpper(u[h - 1])
                        /\ IsDigit(u[h + 1])}
            \* the digits that stand from position i on are the result
            ResultAt(i) ==
                /\ i + Len(lastOp.result) - 1 <= Len(u)
                /\ lastOp.result # <<>>
                /\ lastOp.result = SubSeq(u, i, i + Len(lastOp.result) - 1)
                /\ \A k \in i..(i + Len(lastOp.result) - 1) : IsDigit(u[k])
                /\ \/ i + Len(lastOp.result) > Len(u)
                   \/ ~IsDigit(u[i + Len(lastOp.result)])
            \* the URL ends in the path segment of digits that the slash p
            \* opens (no "?" or "#" stands before a segment of the path)
            EndsInSegment(p) ==
                /\ u[p] = "/"
                /\ \A k \in 1..p : u[k] \notin {"?", "#"}
                /\ \E q \in (p + 1)..Len(u) :
                      /\ \A k \in (p + 1)..q : IsDigit(u[k])
                      /\ \/ q = Len(u)
                         \/ q + 1 = Len(u) /\ IsDelimiter(u[q + 1])
        IN  /\ keys # {} =>
                  \E h \in keys : (\A g \in keys : h <= g) /\ ResultAt(h + 1)
            /\ keys = {} =>
                  \A p \in 1..Len(u) : EndsInSegment(p) => ResultAt(p + 1)
            /\ (/\ MatchProjectKey(u) = <<>>
                /\ MatchPrecededSegment(u) = <<>>
                /\ MatchSegment(u) = <<>>
                /\ MatchKeyword(ToLower(u)) = <<>>
                /\ MatchLongNumber(u) = <<>>) =>
                  lastOp.result = <<"0", "0", "0", "0", "0">> \o Itoa(lastOp.id)

\* C23: strategies 2 and 3 are anchored to the last non-empty path
\* segment.  When the URL holds no project key and one of the two returns
\* digits, those digits are a whole segment of the URL (a slash before them,
\* no digit after them) and no other non-empty segment of the path follows:
\* from the digits to the first "?" or "#", or to the end, only slashes stand.
PathStrategiesAnchored ==
    (/\ lastOp.op = "extract"
     /\ MatchProjectKey(lastOp.url) = <<>>
     /\ \/ MatchPrecededSegment(lastOp.url) # <<>>
        \/ MatchSegment(lastOp.url) # <<>>) =>
        LET u == lastOp.url
            n == Len(lastOp.result)
        IN  /\ n > 0
            /\ \E p \in 1..(Len(u) - n) :
                  /\ u[p] = "/"
                  /\ SubSeq(u, p + 1, p + n) = lastOp.result
                  /\ \A k \in (p + 1)..(p + n) : IsDigit(u[k])
                  /\ p + n = Len(u) \/ ~IsDigit(u[p + n + 1])
                  /\ \A k \in (p + n + 1)..Len(u) :
                        \/ u[k] = "/"
                        \/ \E j \in (p + n + 1)..k : u[j] \in {"?", "#"}
----------------------------------------------------------------------------
\* C24: RestoreFromBackupUsing changes no store in memory.  Whatever it
\* returns, the tickets and NextID of a store made before the call are
\* what they were; it changes tickets.json only, and no backup.
RestoreChangesNoStore ==
    [][lastOp'.op = "restore" =>
          /\ Tickets' = Tickets
          /\ NextID' = NextID
          /\ backups' = backups]_vars

\* a restore that succeeded while the store in memory held tickets other
\* than those of the restored file
RestoreChangesNoStore_Witness ==
    /\ lastOp.op = "restore"
    /\ lastOp.err = "none"
    /\ Tickets # <<>>
    /\ primary.kind = "object"
    /\ Unmarshal(primary).Tickets # Tickets
----------------------------------------------------------------------------
(* Properties of the terminal UI, checked under SpecUi *)

\* C25: Enter in the add-URL view, on a text that is the URL of a ticket of
\* the store with blanks around it, keeps the view, sets the duplicate-URL
\* error and adds no ticket; Enter on an empty or blank text keeps the view
\* and adds no ticket.
DuplicateURLStaysInAddURL ==
    [][(lastOp'.op = "key" /\ lastOp'.view = "ViewAddURL" /\ lastOp'.key = "enter") =>
        LET text == model.textInput
            Blank(a, b) == \A k \in a..b : text[k] = " "
            \* text is url with blanks before and after it
            Around(url) ==
                \E a \in 0..Len(text) :
                    /\ a + Len(url) <= Len(text)
                    /\ Blank(1, a)
                    /\ SubSeq(text, a + 1, a + Len(url)) = url
                    /\ Blank(a + Len(url) + 1, Len(text))
        IN  /\ (\E i \in 1..Len(Tickets) : Around(Tickets[i].URL)) =>
                  /\ model'.viewMode = "ViewAddURL"
                  /\ model'.urlError # ""
                  /\ Tickets' = Tickets
                  /\ NextID' = NextID
            /\ Blank(1, Len(text)) =>
                  /\ model'.viewMode = "ViewAddURL"
                  /\ Tickets' = Tickets
                  /\ NextID' = NextID]_vars

\* Enter was pressed in the add-URL view on the URL of a ticket of the
\* store with a blank before it
DuplicateURLStaysInAddURL_Witness ==
    /\ lastOp.op = "key"
    /\ lastOp.view = "ViewAddURL"
    /\ lastOp.key = "enter"
    /\ model.urlError # ""
    /\ Len(model.textInput) >= 2
    /\ model.textInput[1] = " "
    /\ \E i \in 1..Len(Tickets) : Tickets[i].URL = Tail(model.textInput)

\* C26: in the restore confirmation view, y and Enter restore the chosen
\* backup (tickets.json becomes the backup, the store is loaded from it and
\* the list view is shown) when the backup holds a document and no file
\* call fails; n and Esc show the list view and restore nothing.
ConfirmRestoreKeys ==
    [][(lastOp'.op = "key" /\ lastOp'.view = "ViewConfirmRestore") =>
        LET backup == DirFiles(backups)[model.backupToRestore]
        IN  /\ (/\ lastOp'.key \in {"y", "enter"}
                /\ lastOp'.fault = "none"
                /\ backup.kind = "object") =>
                  /\ primary' = backup
                  /\ Tickets' = LoadTicketsWithFS(backup, "none").Tickets
                  /\ NextID' = LoadTicketsWithFS(backup, "none").NextID
                  /\ model'.viewMode = "ViewList"
            /\ lastOp'.key \in {"n", "esc"} =>
                  /\ primary' = primary
                  /\ Tickets' = Tickets
                  /\ NextID' = NextID
                  /\ model'.viewMode = "ViewList"]_vars
----------------------------------------------------------------------------
\* C27: a DeleteTicket that returns true leaves NextID as it was and leaves
\* the tickets as they were with one ticket of the given id taken out: the
\* tickets before it and the tickets after it stay, in their order, with
\* their fields.
DeleteKeepsTheOthers ==
    [][(lastOp'.op = "delete" /\ lastOp'.ok) =>
          /\ NextID' = NextID
          /\ Len(Tickets') = Len(Tickets) - 1
          /\ \E i \in 1..Len(Tickets) :
                /\ Tickets[i].ID = lastOp'.id
                /\ \A k \in 1..(i - 1) : Tickets'[k] = Tickets[k] /\ Tickets[k].ID # lastOp'.id
                /\ \A k \in (i + 1)..Len(Tickets) : Tickets'[k - 1] = Tickets[k]]_vars

\* a ticket was deleted that stood before two others
DeleteKeepsTheOthers_Witness ==
    /\ lastOp.op = "delete"
    /\ lastOp.ok
    /\ Len(Tickets) >= 2
    /\ \A k \in 1..Len(Tickets) : Tickets[k].ID > lastOp.id
    /\ Tickets[1].ID < Tickets[2].ID
----------------------------------------------------------------------------
\* C28: where tickets.json holds tickets and no next_id, or next_id 0,
\* every AddTicket, those on a store that was loaded from it included,
\* gives the new ticket an id that no ticket of the store has, so that the
\* ids of the store stay pairwise distinct.
LegacyLoadKeepsIdsDistinct ==
    [][(/\ lastOp'.op = "add"
        /\ primary.kind = "object"
        /\ Len(primary.tickets) > 0
        /\ ("next_id" \in DOMAIN primary => primary.next_id = 0)) =>
          /\ Len(Tickets') = Len(Tickets) + 1
          /\ \A i \in 1..Len(Tickets) : Tickets[i].ID # Tickets'[Len(Tickets')].ID
          /\ (\A i, j \in 1..Len(Tickets) : Tickets[i].ID = Tickets[j].ID => i = j)
                => \A i, j \in 1..Len(Tickets') :
                      Tickets'[i].ID = Tickets'[j].ID => i = j]_vars
----------------------------------------------------------------------------
\* C29: the backups that the mutating calls take are kept.  Each such call
\* made while tickets.json exists puts its content into a backup (C12); no
\* later call, be it in the same second of the clock, takes that content
\* away: what some backup file held before a step, some backup file holds
\* after it.
BackupsAreRetained ==
    [][\A t \in DOMAIN backups :
          backups[t] # Absent => \E u \in DOMAIN backups' : backups'[u] = backups[t]]_vars

\* C30: when a store is saved, then a call that changes the store backs up
\* the file of that save, then the store is saved again, then
\* RestoreFromBackup is given the name of that backup and succeeds, then the
\* file is loaded, the store loaded has the tickets and the NextID of the
\* store saved first
RollbackEndToEnd ==
    [][(hist.watch.stage = 4 /\ lastOp'.op = "load" /\ lastOp'.fault = "none") =>
          /\ Tickets' = hist.watch.Tickets
          /\ NextID' = hist.watch.NextID]_vars

\* a rollback was made to a store of tickets, from a later store that
\* differed from it
RollbackEndToEnd_Witness ==
    /\ hist.watch.stage = 5
    /\ lastOp.op = "load"
    /\ hist.watch.Tickets # <<>>
    /\ hist.watch.thenTickets # hist.watch.Tickets
    /\ hist.watch.thenNextID # hist.watch.NextID
    /\ Tickets = hist.watch.Tickets
    /\ NextID = hist.watch.NextID

\* C31: whenever a call writes or rewrites a backup file, tickets.json
\* exists and the backup holds the bytes tickets.json held when the call was
\* made, whatever the store in memory held then; a load into a new store (the
\* process having stopped before a save) changes no backup.
BackupHoldsTheFile ==
    [][/\ \A t \in DOMAIN backups :
             backups'[t] # backups[t] => (primary # Absent /\ backups'[t] = primary)
       /\ lastOp'.op = "load" => backups' = backups]_vars

\* a backup was written while the store in memory held two tickets that
\* tickets.json did not hold, and it holds the file
BackupHoldsTheFile_Witness ==
    /\ lastOp.op = "add"
    /\ primary.kind = "object"
    /\ backups[clock] = primary
    /\ Len(Tickets) >= Len(primary.tickets) + 2
    /\ backups[clock] # MarshalIndent(Tickets, NextID)

\* C32: AddTicket, DeleteTicket, ImportFromFile, Search and HasTicketWithURL
\* leave tickets.json as it is; a step that changes it is a Save or a
\* RestoreFromBackup that returned no error or the error of its WriteFile
\* (which may have truncated the file before it failed).
OnlySaveAndRestoreWrite ==
    [][/\ lastOp'.op \in {"add", "delete", "import", "search", "has"}
             => primary' = primary
       /\ primary' # primary
             => \/ lastOp'.op = "save"
                \/ /\ lastOp'.op = "restore"
                   /\ lastOp'.err \in {"none", "failed to restore from backup"}]_vars

\* an import added tickets that tickets.json does not hold: a load would
\* give the store without them
OnlySaveAndRestoreWrite_Witness ==
    /\ lastOp.op = "import"
    /\ lastOp.Added > 0
    /\ primary.kind = "object"
    /\ Len(LoadTicketsWithFS(primary, "none").Tickets) < Len(Tickets)

\* C32 as stated: tickets.json changes only through Save and through a
\* RestoreFromBackup that succeeded
OnlySaveAndSuccessfulRestoreWrite ==
    [][primary' # primary
          => \/ lastOp'.op = "save"
             \/ (lastOp'.op = "restore" /\ lastOp'.err = "none")]_vars

\* C33: when two processes each load tickets.json, add a ticket and save,
\* in whatever order their calls fall, no call returns an error and, both
\* having saved, tickets.json is the encoding of the store of the process
\* that saved last; the ticket of the other process is missing from it
\* exactly when the process that saved last loaded before the other saved
\* (a process that loads after the other saved holds, and saves, both).
LastWriterWins ==
    (\A p \in Procs : procs[p].pc = "done") =>
        LET last == CHOOSE q \in Procs : procs[q].savedLast
            other == CHOOSE q \in Procs : q # last
        IN  /\ \A p \in Procs : procs[p].err = "none"
            /\ primary = MarshalIndent(procs[last].Tickets, procs[last].NextID)
            /\ (\A i \in 1..Len(primary.tickets) :
                    primary.tickets[i].url # EscapeString(procs[other].url))
               <=> ~procs[last].loadedLate

\* both processes loaded the same file and saved: the ticket of the one
\* that saved first is not in tickets.json
LastWriterWins_Witness ==
    /\ \A p \in Procs : procs[p].pc = "done" /\ ~procs[p].loadedLate
    /\ Len(primary.tickets) = 2
    /\ \E p \in Procs :
          /\ ~procs[p].savedLast
          /\ \A i \in 1..Len(primary.tickets) :
                primary.tickets[i].url # EscapeString(procs[p].url)

\* C33 as stated: in every order of the calls the ticket of the process
\* that did not save last is missing from tickets.json
OtherTicketAlwaysAbsent ==
    (\A p \in Procs : procs[p].pc = "done") =>
        \A p \in Procs :
           IF procs[p].savedLast
           THEN primary = MarshalIndent(procs[p].Tickets, procs[p].NextID)
           ELSE \A i \in 1..Len(primary.tickets) :
                   primary.tickets[i].url # EscapeString(procs[p].url)

\* C34: in every store reached from the empty store by the add dialogue,
\* confirmed deletes and imports, no two tickets have the same URL, and the
\* URL and the title of every ticket are non-empty and neither begin nor
\* end with white space.
UiStoreIsClean ==
    /\ \A i, j \in 1..Len(Tickets) : i # j => Tickets[i].URL # Tickets[j].URL
    /\ \A i \in 1..Len(Tickets) :
          /\ Tickets[i].URL # <<>>
          /\ Tickets[i].Title # <<>>
          /\ ~IsSpace(Tickets[i].URL[1])
          /\ ~IsSpace(Tickets[i].URL[Len(Tickets[i].URL)])
          /\ ~IsSpace(Tickets[i].Title[1])
          /\ ~IsSpace(Tickets[i].Title[Len(Tickets[i].Title)])

\* an import into a store that held a ticket of the add dialogue skipped
\* the lines with its URL and added the line written with white space
\* around its URL and its title
UiStoreIsClean_Witness ==
    /\ lastOp.view = "ViewImport"
    /\ lastOp.Added = 1
    /\ Len(Tickets) = 2
    /\ Tickets[1].URL = <<"u">>
    /\ Tickets[2].URL = <<"u", "u">>
    /\ Tickets[2].Title = <<"u", " ", "u">>

MemoryAndDiskInStep ==
    [][(Tickets' # Tickets \/ NextID' # NextID) =>
          /\ LoadTicketsWithFS(primary', "none").Tickets = Tickets'
          /\ LoadTicketsWithFS(primary', "none").NextID = NextID']_vars

StoreOpsKeepTheTickets ==
    [][/\ lastOp'.op \in {"add", "import"} =>
             /\ Len(Tickets') >= Len(Tickets)
             /\ SubSeq(Tickets', 1, Len(Tickets)) = Tickets
       /\ lastOp'.op = "delete" =>
             \/ Tickets' = Tickets
             \/ \E i \in 1..Len(Tickets) :
                   Tickets' = [k \in 1..(Len(Tickets) - 1) |->
                                  IF k < i THEN Tickets[k] ELSE Tickets[k + 1]]
       /\ lastOp'.op \in {"search", "has", "save"} => Tickets' = Tickets]_vars

\* an import added a ticket behind two tickets the store held
StoreOpsKeepTheTickets_Witness ==
    /\ lastOp.op = "import"
    /\ lastOp.Added >= 1
    /\ Len(Tickets) >= lastOp.Added + 2

====
